---- MODULE Spec2Model ----
(***************************************************************************)
(* A model of the audio separation pipeline of                             *)
(* modules/audio_separator/audio_separator_nu.py.                          *)
(*                                                                         *)
(* Samples are exact rationals <<n, d>> (d > 0, lowest terms): the model   *)
(* follows the arithmetic of the code over the reals, without the rounding *)
(* of float32.  The per-sample steps of separate_music_file are modelled   *)
(* on one sample of one channel (every numpy operation there is            *)
(* element-wise); the chunk and shift code is modelled on whole waveforms. *)
(***************************************************************************)
EXTENDS Integers, Sequences, FiniteSets, TLC

\* ------------------------------------------------------------------------
\* Bounds of the model
\* ------------------------------------------------------------------------
\* Largest magnitude of an input (mix) sample.
MaxAmp == 1
\* Largest additive artifact of a stub backend (a backend is a black box; the
\* model picks each one from a family of affine stubs  x |-> gain * x + artifact
\* with gain 0 or 1).
MaxArt == 1
\* Largest operator-configured ensemble weight (weight_InstVoc, ...).
MaxWeight == 2
\* Largest number of input files of a run.
MaxFiles == 2
\* The chunked separator's geometry, scaled down from hop = 1024, dim_t = 256
\* and n_fft = 7680.
hop == 2
dim_t == 5
n_fft == 4
\* How far the longest demix input exceeds one chunk.
MaxExtra == 2
\* Number of input waveform patterns.
MaxPattern == 2
\* Longest waveform handed to a shift ensembler.
MaxLen == 4
\* Largest shift count of a shift ensembler.
MaxShifts == 4
\* Longest downloaded body, in reads of READ_DATA_CHUNK bytes.
MaxBody == 3

\* ------------------------------------------------------------------------
\* Exact rational arithmetic
\* ------------------------------------------------------------------------
Abs(n) == IF n < 0 THEN -n ELSE n

RECURSIVE GCD(_, _)
GCD(a, b) == IF b = 0 THEN a ELSE GCD(b, a % b)

\* n / d in lowest terms with a positive denominator (d # 0).
Rat(n, d) ==
    LET g == GCD(Abs(n), Abs(d))
        s == IF d < 0 THEN -1 ELSE 1
    IN  << (s * n) \div g, (s * d) \div g >>

RInt(n) == << n, 1 >>
RZero == RInt(0)
ROne == RInt(1)
\* (the common denominator is the least common multiple: TLC's integers are 32 bit)
RAdd(a, b) ==
    LET l == (a[2] \div GCD(a[2], b[2])) * b[2]
    IN  Rat(a[1] * (l \div a[2]) + b[1] * (l \div b[2]), l)
RNeg(a) == << -a[1], a[2] >>
RSub(a, b) == RAdd(a, RNeg(b))
RMul(a, b) ==
    LET g1 == GCD(Abs(a[1]), b[2])
        g2 == GCD(Abs(b[1]), a[2])
    IN  Rat((a[1] \div g1) * (b[1] \div g2), (a[2] \div g2) * (b[2] \div g1))
\* a / b for b # 0
RDiv(a, b) == RMul(a, Rat(b[2], b[1]))
RScale(k, a) == RMul(RInt(k), a)
RLe(a, b) == a[1] * b[2] <= b[1] * a[2]
RLt(a, b) == a[1] * b[2] < b[1] * a[2]
RHalf == Rat(1, 2)

\* (summed by halves, which keeps the evaluation shallow)
RECURSIVE RSum(_)
RSum(s) ==
    IF Len(s) = 0 THEN RZero
    ELSE IF Len(s) = 1 THEN s[1]
    ELSE LET h == Len(s) \div 2
         IN  RAdd(RSum(SubSeq(s, 1, h)), RSum(SubSeq(s, h + 1, Len(s))))

RECURSIVE ISum(_)
ISum(s) == IF s = << >> THEN 0 ELSE Head(s) + ISum(Tail(s))

RMin(a, b) == IF RLe(a, b) THEN a ELSE b
RMax(a, b) == IF RLe(a, b) THEN b ELSE a

RECURSIVE RSeqMin(_)
RSeqMin(s) == IF Len(s) = 1 THEN s[1] ELSE RMin(s[1], RSeqMin(Tail(s)))

RECURSIVE RSeqMax(_)
RSeqMax(s) == IF Len(s) = 1 THEN s[1] ELSE RMax(s[1], RSeqMax(Tail(s)))

\* np.clip(x, lo, hi)
np_clip(x, lo, hi) == RMax(lo, RMin(x, hi))

\* ------------------------------------------------------------------------
\* State
\* ------------------------------------------------------------------------
VARIABLES
    options,                \* the process-wide options mapping
    \* --- separate_music_file, on one sample ---
    sm_pc,                  \* position in separate_music_file
    mixed_sound_array,      \* the mix sample
    lp_response,            \* response of the 10 kHz low-pass at the sample's frequency
    vocals4, vocals3, vocals_mdxb1,
    apply_calls,            \* apply_model calls made for each Demucs model, in order
    vocals, instrum,
    all_outs,               \* weighted 4-stem outputs of the Demucs models run so far
    out,                    \* the normalized 4-stem ensemble
    separated_music_arrays, \* stem name -> sample
    \* --- predict_with_model: one run over options['input_audio'] ---
    pc,                     \* position in predict_with_model
    fs,                     \* what the file system holds at each input path
    device,                 \* the device the model selected
    model_folder,           \* the artifacts present in the local model directory
    printed,                \* the errors reported so far (input indices)
    folder_made,            \* os.makedirs(output_folder) has run
    model,                  \* the constructed model's fields, or None
    device_models,          \* the Demucs models resident on the accelerator
    file_i,                 \* index of the input file being processed
    demucs_i,               \* the Demucs model being loaded or run (1..4)
    art_i,                  \* the artifact the constructor is at
    download_log,           \* the download_url_to_file calls made: << artifact, outcome >>
    demucs_log,             \* the Demucs calls made: << "get_model" or "apply_model", name >>
    sep_result,             \* keys of the separation result of the current file
    vocals_log,             \* per file: the vocal backends run and the blends computed
    current_step,
    callback_log,           \* the invocations of the caller's callback: <<step, total>>
    output_files,           \* the list predict_with_model builds: <<input, stem>>
    written,                \* the output files written: <<input, stem>>
    returned,               \* what predict_with_model returned, or None while it runs
    \* --- demix: the windowed chunk processor, on one channel ---
    dx_pc,
    dx_mix,                 \* the input waveform
    dx_overlap,             \* the overlap fraction handed to demix
    dx_in_low,              \* the input's amplitude in the three lowest STFT bins
    dx_model,               \* the ONNX session, a black box: << gain, low-bin leak >>
    mixture,                \* the padded waveform
    step,
    result, divider,        \* the accumulator pair
    dx_i,                   \* the chunk loop's index
    total,
    source,                 \* what demix returns
    stft_res,               \* the spectrum last handed to the ONNX session
    ten,                    \* the spectrum last handed to istft
    \* --- the circular-shift ensemblers, on one channel ---
    sh_pc,
    sh_fn,                  \* demix_wrapper, demix_full_mdx23c or demix_full_vitlarge
    sh_mix,                 \* the input waveform
    sh_inner,               \* the inner transform, a black box: <<gain, edge artifact>>
    bigshifts,
    shifts,
    sh_idx,                 \* index into shifts of the next shift
    shifted_mix,            \* the rotated input of the last iteration
    results, results2,
    sources, sources2,      \* what the ensembler returns
    \* --- download_url_to_file ---
    dl_pc,
    dst_file,               \* content of the destination path, or None when absent
    dst_before,             \* what the destination path held when the call began
    tmp_file,               \* content of the '.partial' file, or None when absent
    f_open,                 \* the temporary file's handle is open
    body,                   \* the chunks the server still has to send
    hash_prefix,
    sha256,                 \* the bytes fed to the hash so far
    \* --- demix_vitlarge: the window loop, on one channel ---
    vl_pc,
    vl_mix,                 \* the input waveform
    vl_model,               \* the network, a black box: its gain
    vl_step,
    vl_i,                   \* the loop's index i
    vl_result, counter,     \* the accumulator pair
    vl_passes,              \* passes of the loop made so far
    estimated_sources,      \* what demix_vitlarge returns
    \* --- demix_base_mdxv3: the chunk loop, on one channel ---
    bx_pc,
    bx_mix,                 \* the input waveform
    bx_model,               \* the network, a black box: its gain
    bx_H, pad_size,
    bx_padded,              \* mix after torch.cat with the zero padding
    xx,                     \* the accumulator
    cnt,
    covered,                \* per padded position, the chunks added to it so far
    bx_estimated            \* what demix_base_mdxv3 returns

sepVars == << sm_pc, mixed_sound_array, lp_response, vocals4, vocals3, vocals_mdxb1,
              vocals, instrum, all_outs, out, separated_music_arrays, apply_calls >>

runVars == << pc, fs, device, model_folder, printed, folder_made, model, device_models,
              file_i, demucs_i, art_i, download_log, demucs_log, sep_result, vocals_log,
              current_step, callback_log,
              output_files, written, returned >>

dxVars == << dx_pc, dx_mix, dx_overlap, dx_in_low, dx_model, mixture, step, result,
             divider, dx_i, total, source, stft_res, ten >>

shVars == << sh_pc, sh_fn, sh_mix, sh_inner, bigshifts, shifts, sh_idx, shifted_mix,
             results, results2, sources, sources2 >>

dlVars == << dl_pc, dst_file, dst_before, tmp_file, f_open, body, hash_prefix, sha256 >>

vlVars == << vl_pc, vl_mix, vl_model, vl_step, vl_i, vl_result, counter, vl_passes,
             estimated_sources >>

bxVars == << bx_pc, bx_mix, bx_model, bx_H, pad_size, bx_padded, xx, cnt, covered,
             bx_estimated >>

vars == << options, sepVars, runVars, dxVars, shVars, dlVars, vlVars, bxVars >>

\* What an action of one part of the program leaves alone.
notSep == << runVars, dxVars, shVars, dlVars, vlVars, bxVars >>
notRun == << sepVars, dxVars, shVars, dlVars, vlVars, bxVars >>
notDx == << options, sepVars, runVars, shVars, dlVars, vlVars, bxVars >>
notSh == << sepVars, runVars, dxVars, dlVars, vlVars, bxVars >>
notDl == << options, sepVars, runVars, dxVars, shVars, vlVars, bxVars >>
notVl == << options, sepVars, runVars, dxVars, shVars, dlVars, bxVars >>
notBx == << options, sepVars, runVars, dxVars, shVars, dlVars, vlVars >>

None == "None"

\* separate_music: the options mapping built from the arguments' defaults.
DefaultOptions ==
    [ input_audio |-> << >>,
      overlap_demucs |-> Rat(1, 10), overlap_VOCFT |-> Rat(1, 10),
      overlap_VitLarge |-> 1, overlap_InstVoc |-> 1,
      weight_InstVoc |-> 8, weight_VOCFT |-> 1, weight_VitLarge |-> 5,
      BigShifts |-> 7, vocals_only |-> FALSE, use_VOCFT |-> FALSE,
      callback |-> None ]

\* ------------------------------------------------------------------------
\* separate_music_file: the vocal extractor and the Demucs stem ensembler
\* ------------------------------------------------------------------------
\* EnsembleDemucsMDXMusicSeparationModel.__init__: the per-model stem weights,
\* in the order htdemucs_ft, htdemucs, htdemucs_6s, hdemucs_mmi.
weights_vocals == << 10, 1, 8, 9 >>
weights_bass == << 19, 4, 5, 8 >>
weights_drums == << 18, 2, 4, 9 >>
weights_other == << 14, 2, 5, 10 >>

\* Stem order of the Demucs models: drums, bass, other, vocals (, guitar, piano).
StDrums == 1
StBass == 2
StOther == 3
StVocals == 4

Amps == (-MaxAmp) .. MaxAmp
Gains == { 0, 1 }
Arts == 0 .. MaxArt
Weights == 1 .. MaxWeight

\* A stub Demucs model <<k, e>> puts its input on stem k and nothing on the other
\* stems, plus an artifact e on every stem that does not invert with the input.
StubStems(n) == (1 .. n) \X Arts

\* apply_model(model, x)[0] of an n-stem model
apply_model(stub, n, x) ==
    [ s \in 1 .. n |->
        RAdd(IF s = stub[1] THEN x ELSE RZero, RInt(stub[2])) ]

\* A stub vocal backend <<g, e>>: x |-> g * x + e.
StubVocal == Gains \X Arts
vocal_backend(stub, x) == RAdd(RScale(stub[1], x), RInt(stub[2]))

\* 0.5 * f(x) + 0.5 * -f(-x), stem by stem
PhasePair(pos, neg) ==
    [ s \in DOMAIN pos |-> RAdd(RMul(RHalf, pos[s]), RMul(RHalf, RNeg(neg[s]))) ]

\* out[0] = weights_drums[i] * out[0]; ... ; out[3] = weights_vocals[i] * out[3]
StemWeight(s, i) ==
    CASE s = StDrums -> weights_drums[i]
      [] s = StBass -> weights_bass[i]
      [] s = StOther -> weights_other[i]
      [] s = StVocals -> weights_vocals[i]

ApplyWeights(o, i) == [ s \in 1 .. 4 |-> RScale(StemWeight(s, i), o[s]) ]

\* lr_filter: the zero-phase Butterworth pair; on a component of one frequency the
\* low-pass multiplies by the squared magnitude response, the high-pass by its
\* complement.
lr_filter(x, filter_type) ==
    IF filter_type = "lowpass" THEN RMul(lp_response, x)
    ELSE RMul(RSub(ROne, lp_response), x)

LowGain == Rat(101055, 100000)

\* (weights[0] * a + weights[1] * b) / weights.sum()
Blend2(w, a, b) ==
    RDiv(RAdd(RScale(w[1], a), RScale(w[2], b)), RInt(ISum(w)))

\* (weights[0] * a + weights[1] * b + weights[2] * c) / weights.sum()
Blend3(w, a, b, c) ==
    RDiv(RAdd(RAdd(RScale(w[1], a), RScale(w[2], b)), RScale(w[3], c)), RInt(ISum(w)))

\* The state on entry to separate_music_file.  Beyond the 32-bit range of TLC's
\* integers the exact fractions of a full-mode run cannot be followed once the
\* low-band gain 1.01055 has entered the vocals, so a full-mode run is followed
\* from the start on a component above the crossover (lp_response = 0) and a
\* vocals-only run on every component.
SepInit ==
    /\ sm_pc = "vitlarge"
    /\ mixed_sound_array \in { RInt(a) : a \in Amps }
    /\ lp_response \in (IF options.vocals_only THEN { RZero, RHalf, ROne } ELSE { RZero })
    /\ vocals4 = None /\ vocals3 = None /\ vocals_mdxb1 = None
    /\ vocals = None /\ instrum = None
    /\ all_outs = << >> /\ out = None
    /\ separated_music_arrays = << >> /\ apply_calls = << >>

\* vocals4, instrum4 = demix_full_vitlarge(...)
SepVitLarge ==
    /\ sm_pc = "vitlarge"
    /\ \E stub \in StubVocal : vocals4' = vocal_backend(stub, mixed_sound_array)
    /\ sm_pc' = "mdx23c"
    /\ UNCHANGED << options, mixed_sound_array, lp_response, vocals3, vocals_mdxb1,
                    vocals, instrum, all_outs, out, separated_music_arrays, apply_calls, notSep >>

\* sources3 = demix_full_mdx23c(...); vocals_mdxb1 = None; vocals = None
SepMdx23c ==
    /\ sm_pc = "mdx23c"
    /\ \E stub \in StubVocal : vocals3' = vocal_backend(stub, mixed_sound_array)
    /\ sm_pc' = IF options.use_VOCFT THEN "vocft" ELSE "blend"
    /\ UNCHANGED << options, mixed_sound_array, lp_response, vocals4, vocals_mdxb1,
                    vocals, instrum, all_outs, out, separated_music_arrays, apply_calls, notSep >>

\* sources1 = 0.5 * demix_wrapper(mix) + 0.5 * -demix_wrapper(-mix)
SepVocft ==
    /\ sm_pc = "vocft"
    /\ options.use_VOCFT
    /\ \E stub \in StubVocal :
          vocals_mdxb1' =
              RAdd(RMul(RHalf, vocal_backend(stub, mixed_sound_array)),
                   RMul(RHalf, RNeg(vocal_backend(stub, RNeg(mixed_sound_array)))))
    /\ sm_pc' = "blend"
    /\ UNCHANGED << options, mixed_sound_array, lp_response, vocals4, vocals3,
                    vocals, instrum, all_outs, out, separated_music_arrays, apply_calls, notSep >>

\* The weighted blend handed to the low-pass filter.
LowBlend ==
    IF options.use_VOCFT
    THEN Blend3(<< options.weight_VOCFT, options.weight_InstVoc, options.weight_VitLarge >>,
                vocals_mdxb1, vocals3, vocals4)
    ELSE Blend2(<< options.weight_InstVoc, options.weight_VitLarge >>, vocals3, vocals4)

\* Vocals Weighted Multiband Ensemble, then instrum = mixed_sound_array - vocals
SepBlend ==
    /\ sm_pc = "blend"
    /\ LET vocals_low == RMul(lr_filter(LowBlend, "lowpass"), LowGain)
           vocals_high == lr_filter(vocals3, "highpass")
       IN  /\ vocals' = RAdd(vocals_low, vocals_high)
           /\ instrum' = RSub(mixed_sound_array, vocals')
    /\ sm_pc' = IF options.vocals_only THEN "return" ELSE "demucs1"
    /\ UNCHANGED << options, mixed_sound_array, lp_response, vocals4, vocals3,
                    vocals_mdxb1, all_outs, out, separated_music_arrays, apply_calls, notSep >>

\* One Demucs model run as a phase-cancellation pair:
\* out = 0.5 * apply_model(model, audio) + 0.5 * -apply_model(model, -audio)
PairOut(stub, audio) ==
    PhasePair(apply_model(stub, 4, audio), apply_model(stub, 4, RNeg(audio)))

\* htdemucs_6s, single pass: out[2] = out[2] + out[4] + out[5]; out = out[:4]
SixStemOut(stub, audio) ==
    LET o == apply_model(stub, 6, audio)
    IN  [ s \in 1 .. 4 |-> IF s = StOther THEN RAdd(RAdd(o[3], o[5]), o[6]) ELSE o[s] ]

\* A slip in the count: htdemucs run single-pass as well.
apply_model_calls_two_single(k) == IF k \in { 2, 3 } THEN 1 ELSE 2

\* The apply_model calls in the assignment of `out` for the k-th model: two for
\* htdemucs_ft, htdemucs and hdemucs_mmi (model(audio) and model(-audio)), one for
\* htdemucs_6s.
apply_model_calls(k) == IF k = 3 THEN 1 ELSE 2

\* i = 0: htdemucs_ft
SepDemucs1 ==
    /\ sm_pc = "demucs1"
    /\ \E stub \in StubStems(4) :
          all_outs' = Append(all_outs, ApplyWeights(PairOut(stub, instrum), 1))
    /\ apply_calls' = Append(apply_calls, apply_model_calls(1))
    /\ sm_pc' = "demucs2"
    /\ UNCHANGED << options, mixed_sound_array, lp_response, vocals4, vocals3,
                    vocals_mdxb1, vocals, instrum, out, separated_music_arrays, notSep >>

\* i = 1: htdemucs
SepDemucs2 ==
    /\ sm_pc = "demucs2"
    /\ \E stub \in StubStems(4) :
          all_outs' = Append(all_outs, ApplyWeights(PairOut(stub, instrum), 2))
    /\ apply_calls' = Append(apply_calls, apply_model_calls(2))
    /\ sm_pc' = "demucs3"
    /\ UNCHANGED << options, mixed_sound_array, lp_response, vocals4, vocals3,
                    vocals_mdxb1, vocals, instrum, out, separated_music_arrays, notSep >>

\* i = 2: htdemucs_6s
SepDemucs3 ==
    /\ sm_pc = "demucs3"
    /\ \E stub \in StubStems(6) :
          all_outs' = Append(all_outs, ApplyWeights(SixStemOut(stub, instrum), 3))
    /\ apply_calls' = Append(apply_calls, apply_model_calls(3))
    /\ sm_pc' = "demucs4"
    /\ UNCHANGED << options, mixed_sound_array, lp_response, vocals4, vocals3,
                    vocals_mdxb1, vocals, instrum, out, separated_music_arrays, notSep >>

\* i = 3: hdemucs_mmi
SepDemucs4 ==
    /\ sm_pc = "demucs4"
    /\ \E stub \in StubStems(4) :
          all_outs' = Append(all_outs, ApplyWeights(PairOut(stub, instrum), 4))
    /\ apply_calls' = Append(apply_calls, apply_model_calls(4))
    /\ sm_pc' = "normalize"
    /\ UNCHANGED << options, mixed_sound_array, lp_response, vocals4, vocals3,
                    vocals_mdxb1, vocals, instrum, out, separated_music_arrays, notSep >>

\* A slip in the normalisation: every stem divided by weights_vocals.sum().
StemWeightSumVocalsOnly(s) == ISum(weights_vocals)

\* weights_X.sum()
StemWeightSum(s) == ISum([ i \in 1 .. 4 |-> StemWeight(s, i) ])

\* out = np.array(all_outs).sum(axis=0); out[s] = out[s] / weights_s.sum()
Normalized(outs) ==
    [ s \in 1 .. 4 |->
        RDiv(RSum([ i \in 1 .. Len(outs) |-> outs[i][s] ]), RInt(StemWeightSum(s))) ]

SepNormalize ==
    /\ sm_pc = "normalize"
    /\ out' = Normalized(all_outs)
    /\ sm_pc' = "refine"
    /\ UNCHANGED << options, mixed_sound_array, lp_response, vocals4, vocals3,
                    vocals_mdxb1, vocals, instrum, all_outs, separated_music_arrays, apply_calls, notSep >>

\* res = np.clip(mixed_sound_array - vocals - a - b, -1, 1)
Residual(a, b) ==
    np_clip(RSub(RSub(RSub(mixed_sound_array, vocals), a), b), RInt(-1), ROne)

RThird(x) == RDiv(x, RInt(3))

\* separated_music_arrays['other'] = (2 * res + out[2].T) / 3.0
RefineOther(o) == RThird(RAdd(RScale(2, Residual(o[StDrums], o[StBass])), o[StOther]))
\* separated_music_arrays['drums'] = (res + 2 * out[0].T.copy()) / 3.0
RefineDrums(o) == RThird(RAdd(Residual(o[StBass], o[StOther]), RScale(2, o[StDrums])))
\* separated_music_arrays['bass'] = (res + 2 * out[1].T) / 3.0
RefineBass(o) == RThird(RAdd(Residual(o[StDrums], o[StOther]), RScale(2, o[StBass])))

SepRefine ==
    /\ sm_pc = "refine"
    /\ separated_music_arrays' =
          [ other |-> RefineOther(out), drums |-> RefineDrums(out), bass |-> RefineBass(out) ]
    /\ sm_pc' = "correct"
    /\ UNCHANGED << options, mixed_sound_array, lp_response, vocals4, vocals3,
                    vocals_mdxb1, vocals, instrum, all_outs, out, apply_calls, notSep >>

\* mixed_sound_array - vocals - a - b
MixMinus(a, b) == RSub(RSub(RSub(mixed_sound_array, vocals), a), b)

\* The final pass: bass, drums and other are read once, before the three
\* assignments, so every assignment uses the refined values.
Corrected(sma) ==
    LET bass == sma.bass
        drums == sma.drums
        other == sma.other
    IN  [ other |-> MixMinus(bass, drums),
          drums |-> MixMinus(bass, other),
          bass |-> MixMinus(drums, other) ]

SepCorrect ==
    /\ sm_pc = "correct"
    /\ separated_music_arrays' = Corrected(separated_music_arrays)
    /\ sm_pc' = "return"
    /\ UNCHANGED << options, mixed_sound_array, lp_response, vocals4, vocals3,
                    vocals_mdxb1, vocals, instrum, all_outs, out, apply_calls, notSep >>

\* An instrumental rebuilt from the corrected stems where there are any.
WithVocalsStemSum(sma) ==
    [ k \in (DOMAIN sma) \cup { "vocals", "instrum" } |->
        IF k = "vocals" THEN vocals
        ELSE IF k = "instrum"
             THEN (IF "other" \in DOMAIN sma
                   THEN RAdd(RAdd(sma["other"], sma["drums"]), sma["bass"])
                   ELSE instrum)
             ELSE sma[k] ]

\* separated_music_arrays['vocals'] = vocals; separated_music_arrays['instrum'] = instrum
WithVocals(sma) ==
    [ k \in (DOMAIN sma) \cup { "vocals", "instrum" } |->
        IF k = "vocals" THEN vocals ELSE IF k = "instrum" THEN instrum ELSE sma[k] ]

SepReturn ==
    /\ sm_pc = "return"
    /\ separated_music_arrays' = WithVocals(separated_music_arrays)
    /\ sm_pc' = "done"
    /\ UNCHANGED << options, mixed_sound_array, lp_response, vocals4, vocals3,
                    vocals_mdxb1, vocals, instrum, all_outs, out, apply_calls, notSep >>

SepNext ==
    \/ SepVitLarge \/ SepMdx23c \/ SepVocft \/ SepBlend
    \/ SepDemucs1 \/ SepDemucs2 \/ SepDemucs3 \/ SepDemucs4
    \/ SepNormalize \/ SepRefine \/ SepCorrect \/ SepReturn

\* separate_music: the options of a run.  Vocals-only runs take every weight
\* vector of the bound, full-mode runs the default weights.
SepOptions ==
    options \in { [ DefaultOptions EXCEPT !.use_VOCFT = u, !.vocals_only = TRUE,
                      !.weight_InstVoc = w[1], !.weight_VOCFT = w[2], !.weight_VitLarge = w[3] ]
                  : u \in BOOLEAN, w \in Weights \X Weights \X Weights }
              \cup { [ DefaultOptions EXCEPT !.use_VOCFT = u ] : u \in BOOLEAN }

\* No spectrum computed yet.
NoSpectrum == [ low |-> << >>, rest |-> << >> ]

\* No model object yet.
NoModel == [ built |-> FALSE, overlap_demucs |-> None, overlap_MDX |-> None,
             infer_session1 |-> FALSE ]

\* The variables of predict_with_model while only separate_music_file is followed.
RunIdle ==
    /\ pc = "idle" /\ fs = << >> /\ device = "cuda:0" /\ model_folder = { }
    /\ printed = << >> /\ folder_made = FALSE /\ model = NoModel /\ device_models = { }
    /\ file_i = 0 /\ demucs_i = 0 /\ art_i = 0 /\ download_log = << >> /\ demucs_log = { }
    /\ vocals_log = << >>
    /\ sep_result = { } /\ current_step = 0
    /\ callback_log = << >> /\ output_files = << >> /\ written = { } /\ returned = None

\* The variables of separate_music_file, demix, the ensemblers and the download
\* while another part of the program is followed.
SepIdle ==
    /\ sm_pc = "idle" /\ mixed_sound_array = None /\ lp_response = None
    /\ vocals4 = None /\ vocals3 = None /\ vocals_mdxb1 = None
    /\ vocals = None /\ instrum = None
    /\ all_outs = << >> /\ out = None /\ separated_music_arrays = << >>
    /\ apply_calls = << >>

DxIdle ==
    /\ dx_pc = "idle" /\ dx_mix = << >> /\ dx_overlap = None /\ dx_in_low = 0
    /\ dx_model = None /\ mixture = << >> /\ step = 0 /\ result = << >>
    /\ divider = << >> /\ dx_i = 0 /\ total = 0 /\ source = << >>
    /\ stft_res = NoSpectrum /\ ten = NoSpectrum

ShIdle ==
    /\ sh_pc = "idle" /\ sh_fn = None /\ sh_mix = << >> /\ sh_inner = None
    /\ bigshifts = 0 /\ shifts = << >> /\ sh_idx = 0 /\ shifted_mix = << >>
    /\ results = << >> /\ results2 = << >> /\ sources = None /\ sources2 = None

DlIdle ==
    /\ dl_pc = "idle" /\ dst_file = << >> /\ dst_before = << >> /\ tmp_file = << >>
    /\ f_open = FALSE /\ body = << >> /\ hash_prefix = << >> /\ sha256 = << >>

VlIdle ==
    /\ vl_pc = "idle" /\ vl_mix = << >> /\ vl_model = 0 /\ vl_step = 0 /\ vl_i = 0
    /\ vl_result = << >> /\ counter = << >> /\ vl_passes = 0 /\ estimated_sources = << >>

BxIdle ==
    /\ bx_pc = "idle" /\ bx_mix = << >> /\ bx_model = 0 /\ bx_H = 0 /\ pad_size = 0
    /\ bx_padded = << >> /\ xx = << >> /\ cnt = 0 /\ covered = << >> /\ bx_estimated = << >>

InitSeparate == SepOptions /\ SepInit /\ RunIdle /\ DxIdle /\ ShIdle /\ DlIdle /\ VlIdle /\ BxIdle

SpecSeparate == InitSeparate /\ [][SepNext]_vars

\* ------------------------------------------------------------------------
\* predict_with_model and the model's constructor
\* ------------------------------------------------------------------------
\* What the file system holds at an input path: an audio file, nothing, or a file
\* librosa cannot decode.
FileKinds == { "audio", "missing", "unreadable" }

\* The model and config files the constructor looks for, in its order.
AllArtifacts ==
    << "MDX23C-8KFFT-InstVoc_HQ.ckpt", "model_2_stem_full_band_8k.yaml",
       "model_vocals_segm_models_sdr_9.77.ckpt", "config_vocals_segm_models.yaml",
       "UVR-MDX-NET-Voc_FT.onnx" >>

\* The ONNX artifact is looked for only under options['use_VOCFT'].
Artifacts == IF options.use_VOCFT THEN AllArtifacts ELSE SubSeq(AllArtifacts, 1, 4)

Range(f) == { f[x] : x \in DOMAIN f }

NumFiles == Len(options.input_audio)

\* Two steps per file.
total_steps_two == NumFiles * 2

\* total_steps = len(options['input_audio']) * 3
total_steps == NumFiles * 3

\* An inner callback that invokes whatever it was given.
CallbackUnguarded(log, cur) == Append(log, << cur, total_steps >>)

\* The inner callback(step, desc, total): the caller's callback is invoked only
\* when it is callable.
Callback(log, cur) ==
    IF options.callback = "callable" THEN Append(log, << cur, total_steps >>) ELSE log

\* A clamp that forgets the lower bound.
ClampUpperOnly(v) == IF RLt(Rat(99, 100), v) THEN Rat(99, 100) ELSE v

\* if x > 0.99: x = 0.99;  if x < 0.0: x = 0.0
Clamp(v) ==
    LET a == IF RLt(Rat(99, 100), v) THEN Rat(99, 100) ELSE v
    IN  IF RLt(a, RZero) THEN RZero ELSE a

\* A validation loop that never returns early.
NeverMissing == { }

\* The input paths the validation loop finds not to be files.
MissingInputs == { i \in 1 .. NumFiles : fs[i] = "missing" }

Min(S) == CHOOSE x \in S : \A y \in S : x <= y

\* for input_audio in options['input_audio']: if not os.path.isfile(...): print; return
Validate ==
    /\ pc = "validate"
    /\ IF MissingInputs # { }
       THEN /\ printed' = Append(printed, options.input_audio[Min(MissingInputs)])
            /\ returned' = None
            /\ pc' = "returned"
       ELSE /\ pc' = "makedirs"
            /\ UNCHANGED << printed, returned >>
    /\ UNCHANGED << options, fs, device, model_folder, folder_made, model, device_models,
                    file_i, demucs_i, art_i, sep_result, current_step, callback_log,
                    output_files, written, download_log, demucs_log, vocals_log, notRun >>

\* os.makedirs(output_folder, exist_ok=True); then __init__ up to the clamps
CtorBegin ==
    /\ pc = "makedirs"
    /\ folder_made' = TRUE
    /\ model' = [ built |-> FALSE,
                  overlap_demucs |-> Clamp(options.overlap_demucs),
                  overlap_MDX |-> Clamp(options.overlap_VOCFT),
                  infer_session1 |-> FALSE ]
    /\ IF options.vocals_only
       THEN pc' = "ctor_fetch" /\ art_i' = 1 /\ UNCHANGED demucs_i
       ELSE pc' = "ctor_demucs" /\ demucs_i' = 1 /\ UNCHANGED art_i
    /\ UNCHANGED << options, fs, device, model_folder, printed, device_models, file_i,
                    sep_result, current_step, callback_log, output_files, written,
                    returned, download_log, demucs_log, vocals_log, notRun >>

\* The pretrained Demucs models, in the order both the constructor and
\* separate_music_file go through them.
DemucsNames == << "htdemucs_ft", "htdemucs", "htdemucs_6s", "hdemucs_mmi" >>

\* model.to(device): a model moved to the accelerator resides there.
ToDevice(held, handle) == IF device = "cuda:0" THEN held \cup { handle } ELSE held

\* model_k = pretrained.get_model(...); model_k.to(device); self.models.append(model_k)
CtorDemucs ==
    /\ pc = "ctor_demucs"
    /\ device_models' = ToDevice(device_models, << "self.models", demucs_i >>)
    /\ demucs_log' = demucs_log \cup { << "get_model", DemucsNames[demucs_i] >> }
    /\ IF demucs_i < 4
       THEN demucs_i' = demucs_i + 1 /\ UNCHANGED << pc, art_i >>
       ELSE demucs_i' = 0 /\ pc' = "ctor_fetch" /\ art_i' = 1
    /\ UNCHANGED << options, fs, device, model_folder, printed, folder_made, model, file_i,
                    sep_result, current_step, callback_log, output_files, written,
                    returned, download_log, vocals_log, notRun >>

\* The constructor is past its last artifact: predict_with_model goes on with
\* callback(0, "Initializing model", total_steps) and the file loop.  The ONNX
\* session self.infer_session1 is created right after the ONNX file is in place.
CtorAdvance(i) ==
    IF i < Len(Artifacts)
    THEN /\ art_i' = i + 1
         /\ UNCHANGED << pc, model, callback_log, file_i, current_step >>
    ELSE /\ art_i' = 0
         /\ model' = [ model EXCEPT !.built = TRUE,
                                    !.infer_session1 = (Artifacts[i] = AllArtifacts[5]) ]
         /\ callback_log' = Callback(callback_log, 0)
         /\ current_step' = 0
         /\ file_i' = 1
         /\ pc' = "loop"

\* A constructor that goes on after a failed download.
DownloadFailureIgnored(i) == CtorAdvance(i)

\* download_url_to_file raised: nothing catches it up to separate_music's caller.
DownloadFailure(i) ==
    /\ pc' = "raised"
    /\ UNCHANGED << art_i, model, callback_log, file_i, current_step >>

\* A test that finds no file.
IsFileNever(a) == FALSE

\* os.path.isfile(os.path.join(model_folder, a))
IsFile(a) == a \in model_folder

\* if not os.path.isfile(path): download_url_to_file(url, path)
CtorFetch ==
    /\ pc = "ctor_fetch"
    /\ \/ /\ IsFile(Artifacts[art_i])
          /\ UNCHANGED << model_folder, download_log >>
          /\ CtorAdvance(art_i)
       \/ /\ ~IsFile(Artifacts[art_i])
          /\ model_folder' = model_folder \cup { Artifacts[art_i] }
          /\ download_log' = Append(download_log, << Artifacts[art_i], "ok" >>)
          /\ CtorAdvance(art_i)
       \/ /\ ~IsFile(Artifacts[art_i])
          /\ download_log' = Append(download_log, << Artifacts[art_i], "failed" >>)
          /\ UNCHANGED model_folder
          /\ DownloadFailure(art_i)
    /\ UNCHANGED << options, fs, device, printed, folder_made, device_models, demucs_i,
                    sep_result, output_files, written, returned, demucs_log, vocals_log, notRun >>

\* callback(current_step, ...); audio, sr = librosa.load(...); current_step += 1; callback
LoadFile ==
    /\ pc = "loop"
    /\ file_i <= NumFiles
    /\ IF fs[file_i] = "audio"
       THEN /\ current_step' = current_step + 1
            /\ callback_log' = Callback(Callback(callback_log, current_step), current_step + 1)
            /\ pc' = "separate"
       ELSE /\ callback_log' = Callback(callback_log, current_step)
            /\ pc' = "raised"
            /\ UNCHANGED current_step
    /\ UNCHANGED << options, fs, device, model_folder, printed, folder_made, model,
                    device_models, file_i, demucs_i, art_i, sep_result, output_files,
                    written, returned, download_log, demucs_log, vocals_log, notRun >>

\* A stem stage that runs in every mode.
EnsembleAlways == TRUE

\* if options['vocals_only'] is False:
EnsembleEnabled == options.vocals_only = FALSE

\* A toggle that is always taken as enabled.
VocftAlways == TRUE

\* if options['use_VOCFT'] is True:
VocftEnabled == options.use_VOCFT = TRUE

\* demix_full_vitlarge, demix_full_mdx23c, and under the toggle the phase pair of
\* demix_wrapper on the ONNX session.
VocalBackendsRun ==
    << "demix_full_vitlarge", "demix_full_mdx23c" >>
        \o (IF VocftEnabled THEN << "demix_wrapper" >> ELSE << >>)

\* The two `if` statements of the Vocals Weighted Multiband Ensemble: the weight
\* options of each blend that is computed, in order.
BlendsComputed ==
    (IF options.use_VOCFT = FALSE
     THEN << << "weight_InstVoc", "weight_VitLarge" >> >> ELSE << >>)
    \o (IF VocftEnabled
        THEN << << "weight_VOCFT", "weight_InstVoc", "weight_VitLarge" >> >> ELSE << >>)

\* separate_music_file up to `instrum = mixed_sound_array - vocals`
SeparateVocals ==
    /\ pc = "separate"
    /\ sep_result' = { }
    /\ vocals_log' = Append(vocals_log, [ run |-> VocalBackendsRun, blends |-> BlendsComputed ])
    /\ IF EnsembleEnabled
       THEN pc' = "demucs_load" /\ demucs_i' = 1
       ELSE pc' = "sep_finish" /\ UNCHANGED demucs_i
    /\ UNCHANGED << options, fs, device, model_folder, printed, folder_made, model,
                    device_models, file_i, art_i, current_step, callback_log,
                    output_files, written, returned, download_log, demucs_log, notRun >>

\* model = pretrained.get_model(...); model.to(self.device)
DemucsLoad ==
    /\ pc = "demucs_load"
    /\ device_models' = ToDevice(device_models, << "model", demucs_i >>)
    /\ demucs_log' = demucs_log \cup { << "get_model", DemucsNames[demucs_i] >> }
    /\ pc' = "demucs_apply"
    /\ UNCHANGED << options, fs, device, model_folder, printed, folder_made, model, file_i,
                    demucs_i, art_i, sep_result, current_step, callback_log, output_files,
                    written, returned, download_log, vocals_log, notRun >>

\* out = apply_model(model, audio, ...); out[s] = weights_s[i] * out[s]; all_outs.append(out)
DemucsApply ==
    /\ pc = "demucs_apply"
    /\ pc' = "demucs_evict"
    /\ demucs_log' = demucs_log \cup { << "apply_model", DemucsNames[demucs_i] >> }
    /\ UNCHANGED << options, fs, device, model_folder, printed, folder_made, model,
                    device_models, file_i, demucs_i, art_i, sep_result, current_step,
                    callback_log, output_files, written, returned, download_log, vocals_log, notRun >>

\* model.to('cpu'); del model; gc.collect()
DemucsEvict ==
    /\ pc = "demucs_evict"
    /\ device_models' = device_models \ { << "model", demucs_i >> }
    /\ IF demucs_i < 4
       THEN demucs_i' = demucs_i + 1 /\ pc' = "demucs_load"
       ELSE demucs_i' = 0 /\ pc' = "sep_finish"
    /\ UNCHANGED << options, fs, device, model_folder, printed, folder_made, model, file_i,
                    art_i, sep_result, current_step, callback_log, output_files, written,
                    returned, download_log, demucs_log, vocals_log, notRun >>

\* An input path is << directory, base name >>; the inputs of a run lie in
\* different directories and may share a base name.
Names == { "song", "take" }

\* os.path.splitext(os.path.basename(input_audio))[0]
basename(path) == path[2]

\* os.path.join(output_folder, basename + '_{}.wav'.format(instrum))
out_path(path, name) == << "output_folder", basename(path), name >>

\* A stem list that does not look at vocals_only.
instruments_full == << "bass", "drums", "other", "vocals" >>

\* EnsembleDemucsMDXMusicSeparationModel.instruments
instruments ==
    IF options.vocals_only = FALSE THEN << "bass", "drums", "other", "vocals" >>
    ELSE << "vocals" >>

\* The rest of separate_music_file (the stems, vocals and instrum entries), then
\* current_step += 1; callback
SeparateFinish ==
    /\ pc = "sep_finish"
    /\ sep_result' = (IF EnsembleEnabled THEN { "other", "drums", "bass" } ELSE { })
                        \cup { "vocals", "instrum" }
    /\ current_step' = current_step + 1
    /\ callback_log' = Callback(callback_log, current_step + 1)
    /\ pc' = "write"
    /\ UNCHANGED << options, fs, device, model_folder, printed, folder_made, model,
                    device_models, file_i, demucs_i, art_i, output_files, written,
                    returned, download_log, demucs_log, vocals_log, notRun >>

\* The paths written for input i: one per instrument, then the instrumental.
OutputsOf(i) ==
    [ k \in 1 .. Len(instruments) |-> out_path(options.input_audio[i], instruments[k]) ]
        \o << out_path(options.input_audio[i], "instrum") >>

\* for instrum in model.instruments: sf.write(...); sf.write(instrum);
\* current_step += 1; callback
WriteOutputs ==
    /\ pc = "write"
    /\ written' = written \cup Range(OutputsOf(file_i))
    /\ output_files' = output_files \o OutputsOf(file_i)
    /\ current_step' = current_step + 1
    /\ callback_log' = Callback(callback_log, current_step + 1)
    /\ file_i' = file_i + 1
    /\ pc' = "loop"
    /\ UNCHANGED << options, fs, device, model_folder, printed, folder_made, model,
                    device_models, demucs_i, art_i, sep_result, returned, download_log, demucs_log, vocals_log, notRun >>

\* callback(total_steps, "All files processed", total_steps); return output_files
Finish ==
    /\ pc = "loop"
    /\ file_i > NumFiles
    /\ callback_log' = Callback(callback_log, total_steps)
    /\ returned' = "output_files"
    /\ pc' = "returned"
    /\ UNCHANGED << options, fs, device, model_folder, printed, folder_made, model,
                    device_models, file_i, demucs_i, art_i, sep_result, current_step,
                    output_files, written, download_log, demucs_log, vocals_log, notRun >>

Next ==
    \/ Validate \/ CtorBegin \/ CtorDemucs \/ CtorFetch
    \/ LoadFile \/ SeparateVocals \/ DemucsLoad \/ DemucsApply \/ DemucsEvict
    \/ SeparateFinish \/ WriteOutputs \/ Finish

\* separate_music: the options of a run, and its environment.
RunOptions ==
    options \in { [ DefaultOptions EXCEPT !.input_audio = [ i \in 1 .. n |-> << i, b[i] >> ],
                      !.vocals_only = v, !.use_VOCFT = u, !.callback = c ]
                  : n \in 0 .. MaxFiles, b \in [ 1 .. MaxFiles -> Names ],
                    v \in BOOLEAN, u \in BOOLEAN,
                    c \in { None, "callable", "not callable" } }

RunInit ==
    /\ pc = "validate"
    /\ fs \in [ 1 .. NumFiles -> FileKinds ]
    /\ device \in { "cuda:0", "cpu" }
    /\ model_folder \in { { }, Range(AllArtifacts) }
    /\ printed = << >> /\ folder_made = FALSE /\ model = NoModel /\ device_models = { }
    /\ file_i = 0 /\ demucs_i = 0 /\ art_i = 0 /\ download_log = << >> /\ demucs_log = { }
    /\ vocals_log = << >>
    /\ sep_result = { } /\ current_step = 0
    /\ callback_log = << >> /\ output_files = << >> /\ written = { }
    /\ returned = "pending"

Init == RunOptions /\ RunInit /\ SepIdle /\ DxIdle /\ ShIdle /\ DlIdle /\ VlIdle /\ BxIdle

Spec == Init /\ [][Next]_vars

\* The constructor alone, over every supplied overlap and every content of the
\* model directory.
OverlapInputs == { Rat(-3, 10), RZero, Rat(1, 2), Rat(99, 100), Rat(3, 2) }

CtorOptions ==
    options \in { [ DefaultOptions EXCEPT !.overlap_demucs = d, !.overlap_VOCFT = m,
                      !.vocals_only = v, !.use_VOCFT = u ]
                  : d \in OverlapInputs, m \in OverlapInputs, v \in BOOLEAN, u \in BOOLEAN }

CtorInit ==
    /\ pc = "makedirs"
    /\ fs = << >>
    /\ device \in { "cuda:0", "cpu" }
    /\ model_folder \in SUBSET Range(AllArtifacts)
    /\ printed = << >> /\ folder_made = FALSE /\ model = NoModel /\ device_models = { }
    /\ file_i = 0 /\ demucs_i = 0 /\ art_i = 0 /\ download_log = << >> /\ demucs_log = { }
    /\ vocals_log = << >>
    /\ sep_result = { } /\ current_step = 0
    /\ callback_log = << >> /\ output_files = << >> /\ written = { }
    /\ returned = "pending"

CtorNext == CtorBegin \/ CtorDemucs \/ CtorFetch

InitConstruct == CtorOptions /\ CtorInit /\ SepIdle /\ DxIdle /\ ShIdle /\ DlIdle /\ VlIdle /\ BxIdle

SpecConstruct == InitConstruct /\ [][CtorNext]_vars

\* ------------------------------------------------------------------------
\* demix: the windowed chunk processor of the ONNX vocal backend
\* ------------------------------------------------------------------------
\* Conv_TDF_net_trim_model.chunk_size = hop * (dim_t - 1)
chunk_size == hop * (dim_t - 1)

\* trim = n_fft // 2
trim == n_fft \div 2

\* gen_size = chunk_size - 2 * trim
gen_size == chunk_size - 2 * trim

\* np.hanning(M) in thousandths: 0.5 - 0.5 cos(2 pi n / (M - 1)), exactly zero
\* at both ends, and [1.] for M = 1.
np_hanning(M) ==
    CASE
          M = 1 -> << 1000 >>
       [] M = 2 -> << 0, 0 >>
       [] M = 3 -> << 0, 1000, 0 >>
       [] M = 4 -> << 0, 750, 750, 0 >>
       [] M = 5 -> << 0, 500, 1000, 500, 0 >>
       [] M = 6 -> << 0, 345, 905, 905, 345, 0 >>
       [] M = 7 -> << 0, 250, 750, 1000, 750, 250, 0 >>
       [] M = 8 -> << 0, 188, 611, 950, 950, 611, 188, 0 >>
       [] M = 9 -> << 0, 146, 500, 854, 1000, 854, 500, 146, 0 >>
       [] M = 10 -> << 0, 117, 413, 750, 970, 970, 750, 413, 117, 0 >>
       [] M = 11 -> << 0, 95, 345, 655, 905, 1000, 905, 655, 345, 95, 0 >>
       [] M = 12 -> << 0, 79, 292, 571, 827, 980, 980, 827, 571, 292, 79, 0 >>
       [] M = 13 -> << 0, 67, 250, 500, 750, 933, 1000, 933, 750, 500, 250, 67, 0 >>
       [] M = 14 -> << 0, 57, 216, 440, 677, 874, 985, 985, 874, 677, 440, 216, 57, 0 >>
       [] M = 15 -> << 0, 50, 188, 389, 611, 812, 950, 1000, 950, 812, 611, 389, 188, 50, 0 >>
       [] M = 16 -> << 0, 43, 165, 345, 552, 750, 905, 989, 989, 905, 750, 552, 345, 165, 43, 0 >>

\* A waveform sample is carried as << its part in the three lowest STFT bins,
\* its part in the other bins >>.
Silence(n) == [ j \in 1 .. n |-> << 0, 0 >> ]

Zeros(n) == [ j \in 1 .. n |-> 0 ]

\* The value of a sample.
Wave(x) == [ j \in 1 .. Len(x) |-> x[j][1] + x[j][2] ]

\* Conv_TDF_net_trim_model.stft: the chunk's spectrogram, low bins and the rest.
stft(x) == [ low |-> [ j \in 1 .. Len(x) |-> x[j][1] ], rest |-> [ j \in 1 .. Len(x) |-> x[j][2] ] ]

\* A chunk step that leaves the low bins as they are.
KeepLowBins(sp) == sp

\* stft_res[:, :, :3, :] *= 0
ZeroLowBins(sp) == [ sp EXCEPT !.low = [ j \in 1 .. Len(sp.low) |-> 0 ] ]

\* _ort.run(None, {'input': stft_res}): the session scales the spectrogram and
\* may leak energy into the low bins.
ort_run(m, sp) ==
    [ low |-> [ j \in 1 .. Len(sp.low) |-> m[1] * sp.low[j] + m[2] ],
      rest |-> [ j \in 1 .. Len(sp.rest) |-> m[1] * sp.rest[j] ] ]

\* Conv_TDF_net_trim_model.istft: back to a waveform.
istft(sp) == [ j \in 1 .. Len(sp.low) |-> sp.low[j] + sp.rest[j] ]

\* The chunk size of the program's model: hop = 1024, dim_t = 256.
mdx_chunk_size == 1024 * (256 - 1)

\* A stride with the overlap's sign slipped: int((1 + overlap) * size).
StepOfSizePlus(overlap, size) == ((overlap[2] + overlap[1]) * size) \div overlap[2]

\* int((1 - overlap) * size)
StepOfSize(overlap, size) == ((overlap[2] - overlap[1]) * size) \div overlap[2]

\* step = int((1 - overlap) * chunk_size)
StepOf(overlap) == StepOfSize(overlap, chunk_size)

\* pad = gen_size + trim - (mix.shape[-1] % gen_size); mixture, result, divider
DemixStart ==
    /\ dx_pc = "start"
    /\ mixture' = Silence(trim) \o dx_mix
                    \o Silence(gen_size + trim - (Len(dx_mix) % gen_size))
    /\ step' = StepOf(dx_overlap)
    /\ result' = Zeros(Len(mixture'))
    /\ divider' = Zeros(Len(mixture'))
    /\ total' = 0
    /\ dx_i' = 0
    /\ dx_pc' = "loop"
    /\ UNCHANGED << dx_mix, dx_overlap, dx_in_low, dx_model, source, stft_res, ten, notDx >>

\* window = None if overlap == 0 else np.hanning(chunk_size_actual)
WindowOf(overlap, n) == IF overlap = RZero THEN [ j \in 1 .. n |-> 1 ] ELSE np_hanning(n)

\* mix_part_ = mixture[:, start:end], zero-padded to (i + chunk_size) - start
mix_part(i) ==
    LET end == IF i + chunk_size < Len(mixture) THEN i + chunk_size ELSE Len(mixture)
    IN  SubSeq(mixture, i + 1, end) \o Silence((i + chunk_size) - end)

\* stft_res = models[0].stft(mix_wave); stft_res[:, :, :3, :] *= 0
ChunkSpectrum(i) == ZeroLowBins(stft(mix_part(i)))

\* res = _ort.run(None, {'input': stft_res}); ten = torch.tensor(res)
ChunkRes(i) == ort_run(dx_model, ChunkSpectrum(i))

\* What one pass of the loop body adds to result (the windowed chunk output).
tar_waves(i) ==
    LET end == IF i + chunk_size < Len(mixture) THEN i + chunk_size ELSE Len(mixture)
        waves == istft(ChunkRes(i))
        window == WindowOf(dx_overlap, end - i)
    IN  [ j \in 1 .. (end - i) |-> waves[j] * window[j] ]

\* One pass of `for i in range(0, mixture.shape[-1], step)`.
DemixChunk ==
    /\ dx_pc = "loop"
    /\ LET end == IF dx_i + chunk_size < Len(mixture) THEN dx_i + chunk_size ELSE Len(mixture)
           window == WindowOf(dx_overlap, end - dx_i)
           waves == tar_waves(dx_i)
       IN  /\ result' = [ p \in 1 .. Len(mixture) |->
                            IF dx_i < p /\ p <= end THEN result[p] + waves[p - dx_i]
                            ELSE result[p] ]
           /\ divider' = [ p \in 1 .. Len(mixture) |->
                            IF dx_i < p /\ p <= end THEN divider[p] + window[p - dx_i]
                            ELSE divider[p] ]
    /\ stft_res' = ChunkSpectrum(dx_i)
    /\ ten' = ChunkRes(dx_i)
    /\ total' = total + 1
    /\ dx_i' = dx_i + step
    /\ dx_pc' = IF dx_i + step < Len(mixture) THEN "loop" ELSE "divide"
    /\ UNCHANGED << dx_mix, dx_overlap, dx_in_low, dx_model, mixture, step, source, notDx >>

\* A float32 quotient: 0/0 is nan, x/0 is an infinity.
NaN == << 0, 0 >>

FloatDiv(a, b) ==
    IF b # 0 THEN Rat(a, b)
    ELSE IF a = 0 THEN NaN ELSE << (IF a > 0 THEN 1 ELSE -1), 0 >>

\* A cut of the tail only: x[:-a].
SliceTailOnly(x, a) == IF a = 0 THEN << >> ELSE SubSeq(x, 1, Len(x) - a)

\* x[a:-a] of Python: empty when a = 0.
SliceBothEnds(x, a) == IF a = 0 THEN << >> ELSE SubSeq(x, a + 1, Len(x) - a)

\* x[:n]
Take(x, n) == SubSeq(x, 1, IF n < Len(x) THEN n ELSE Len(x))

\* tar_waves = result / divider; [:, :, trim:-trim]; [:, :mix.shape[-1]]
DemixFinish ==
    /\ dx_pc = "divide"
    /\ source' = Take(SliceBothEnds([ p \in 1 .. Len(mixture) |-> FloatDiv(result[p], divider[p]) ],
                                    trim),
                      Len(dx_mix))
    /\ dx_pc' = "done"
    /\ UNCHANGED << dx_mix, dx_overlap, dx_in_low, dx_model, mixture, step, result, divider,
                    dx_i, total, stft_res, ten, notDx >>

DemixNext == DemixStart \/ DemixChunk \/ DemixFinish

\* The overlaps a run can hand to demix: its stride is at least one sample.
Overlaps == { Rat(k, chunk_size) : k \in 0 .. (chunk_size - 1) } \cup { Rat(1, 10) }

\* An ONNX session: the identity, a gain, and either with a low-bin leak.
Sessions == { 1, 2 } \X { 0, 1 }

DemixInit ==
    /\ dx_pc = "start"
    /\ dx_in_low \in { 0, 1 }
    /\ \E n \in 1 .. (chunk_size + MaxExtra), m \in 1 .. MaxPattern :
          dx_mix = [ j \in 1 .. n |-> << dx_in_low, ((j * m) % 5) - 2 >> ]
    /\ dx_overlap \in Overlaps
    /\ dx_model \in Sessions
    /\ mixture = << >> /\ step = 0 /\ result = << >> /\ divider = << >>
    /\ dx_i = 0 /\ total = 0 /\ source = << >>
    /\ stft_res = NoSpectrum /\ ten = NoSpectrum

InitDemix == options = DefaultOptions /\ DemixInit /\ SepIdle /\ RunIdle /\ ShIdle /\ DlIdle /\ VlIdle /\ BxIdle

SpecDemix == InitDemix /\ [][DemixNext]_vars

\* ------------------------------------------------------------------------
\* The circular-shift ensemblers: demix_wrapper, demix_full_mdx23c,
\* demix_full_vitlarge
\* ------------------------------------------------------------------------
\* A Python slice bound: negative counts from the end, and the bound is clipped.
PyIdx(i, n) == IF i < 0 THEN (IF n + i < 0 THEN 0 ELSE n + i) ELSE (IF i > n THEN n ELSE i)

\* x[a:b]
PySlice(x, a, b) == SubSeq(x, PyIdx(a, Len(x)) + 1, PyIdx(b, Len(x)))

\* A rotation the other way round.
RotateLeft(x, shift) == PySlice(x, shift, Len(x)) \o PySlice(x, 0, shift)

\* np.concatenate((mix[:, -shift:], mix[:, :-shift]), axis=-1)
Rotate(x, shift) == PySlice(x, -shift, Len(x)) \o PySlice(x, 0, -shift)

\* np.concatenate((sources[..., shift:], sources[..., :shift]), axis=-1)
Restore(x, shift) == PySlice(x, shift, Len(x)) \o PySlice(x, 0, shift)

\* The inner transform (demix, demix_base_mdxv3, demix_vitlarge), a black box:
\* a gain and an artifact at the first sample of what it is given.
InnerVocals(st, x) == [ j \in 1 .. Len(x) |-> st[1] * x[j] + (IF j = 1 THEN st[2] ELSE 0) ]

\* demix_vitlarge's second stem.
InnerOther(st, x) == [ j \in 1 .. Len(x) |-> x[j] - InnerVocals(st, x)[j] ]

\* An ensembler without volume compensation.
no_compensation(fn) == ROne

\* The volume compensation of each ensembler's vocals.
volume_compensation(fn) ==
    CASE fn = "demix_wrapper" -> Rat(1021, 1000)
      [] fn = "demix_full_mdx23c" -> Rat(10005168, 10000000)
      [] fn = "demix_full_vitlarge" -> Rat(1002, 1000)

\* np.mean(results, axis=0)
np_mean(rs) ==
    [ j \in 1 .. Len(rs[1]) |->
        RDiv(RSum([ k \in 1 .. Len(rs) |-> rs[k][j] ]), RInt(Len(rs))) ]

\* The shift count the ensembler is called with: demix_wrapper is handed
\* options['BigShifts'] // 5, the other two read options["BigShifts"].
BigShiftsArg == IF sh_fn = "demix_wrapper" THEN options.BigShifts \div 5 ELSE options.BigShifts

\* if bigshifts <= 0: bigshifts = 1
shift_count(b) == IF b <= 0 THEN 1 ELSE b

\* A stride rounded up instead of down.
shift_in_samples_ceil(n, b) == (n + b - 1) \div b

\* shift_in_samples = mix.shape[1] // bigshifts
shift_in_samples(n, b) == n \div b

\* if bigshifts <= 0: bigshifts = 1;  shifts = [x * (N // bigshifts) for x in range(bigshifts)]
ShiftStart ==
    /\ sh_pc = "start"
    /\ bigshifts' = shift_count(BigShiftsArg)
    /\ shifts' = [ x \in 1 .. bigshifts' |->
                     (x - 1) * shift_in_samples(Len(sh_mix), bigshifts') ]
    /\ results' = << >> /\ results2' = << >>
    /\ sh_idx' = 1
    /\ sh_pc' = "rotate"
    /\ UNCHANGED << options, sh_fn, sh_mix, sh_inner, shifted_mix, sources, sources2, notSh >>

\* shifted_mix = np.concatenate(...)
ShiftRotate ==
    /\ sh_pc = "rotate"
    /\ shifted_mix' = Rotate(sh_mix, shifts[sh_idx])
    /\ sh_pc' = "inner"
    /\ UNCHANGED << options, sh_fn, sh_mix, sh_inner, bigshifts, shifts, sh_idx, results,
                    results2, sources, sources2, notSh >>

\* sources = inner(shifted_mix) * compensation
Compensated(fn, y) == [ j \in 1 .. Len(y) |-> RMul(volume_compensation(fn), RInt(y[j])) ]

Uncompensated(y) == [ j \in 1 .. Len(y) |-> RInt(y[j]) ]

\* sources = inner(shifted_mix) * compensation; restored_sources = ...;
\* results.append(restored_sources)
ShiftInner ==
    /\ sh_pc = "inner"
    /\ results' = Append(results,
                         Restore(Compensated(sh_fn, InnerVocals(sh_inner, shifted_mix)),
                                 shifts[sh_idx]))
    /\ results2' = IF sh_fn = "demix_full_vitlarge"
                   THEN Append(results2,
                               Restore(Uncompensated(InnerOther(sh_inner, shifted_mix)),
                                       shifts[sh_idx]))
                   ELSE results2
    /\ sh_idx' = sh_idx + 1
    /\ sh_pc' = IF sh_idx < Len(shifts) THEN "rotate" ELSE "mean"
    /\ UNCHANGED << options, sh_fn, sh_mix, sh_inner, bigshifts, shifts, shifted_mix,
                    sources, sources2, notSh >>

\* sources = np.mean(results, axis=0); return
ShiftMean ==
    /\ sh_pc = "mean"
    /\ sources' = np_mean(results)
    /\ sources2' = IF sh_fn = "demix_full_vitlarge" THEN np_mean(results2) ELSE sources2
    /\ sh_pc' = "done"
    /\ UNCHANGED << options, sh_fn, sh_mix, sh_inner, bigshifts, shifts, sh_idx,
                    shifted_mix, results, results2, notSh >>

ShiftNext == ShiftStart \/ ShiftRotate \/ ShiftInner \/ ShiftMean

ShiftOptions ==
    options \in { [ DefaultOptions EXCEPT !.BigShifts = b ]
                  : b \in (-1 .. MaxShifts) \cup { 5 * k : k \in 1 .. MaxShifts } }

ShiftInit ==
    /\ sh_pc = "start"
    /\ sh_fn \in { "demix_wrapper", "demix_full_mdx23c", "demix_full_vitlarge" }
    /\ \E n \in 1 .. MaxLen, m \in 1 .. MaxPattern :
          sh_mix = [ j \in 1 .. n |-> ((j * m) % 5) - 2 ]
    /\ sh_inner \in { 1, 2 } \X Arts
    /\ bigshifts = 0 /\ shifts = << >> /\ sh_idx = 0 /\ shifted_mix = << >>
    /\ results = << >> /\ results2 = << >> /\ sources = << >> /\ sources2 = << >>

InitShift == ShiftOptions /\ ShiftInit /\ SepIdle /\ RunIdle /\ DxIdle /\ DlIdle /\ VlIdle /\ BxIdle

SpecShift == InitShift /\ [][ShiftNext]_vars

\* ------------------------------------------------------------------------
\* download_url_to_file
\* ------------------------------------------------------------------------
\* What a path holds: nothing, or a file with the given content.  An optional
\* argument is carried the same way: << >> is None.
Absent == << >>
File(content) == << content >>

\* sha256.hexdigest(), a two-symbol stand-in computed from the bytes fed.
hexdigest(content) == << ISum(content) % 2, Len(content) % 2 >>

\* digest[:len(hash_prefix)]
Prefix(digest, n) == SubSeq(digest, 1, IF n < Len(digest) THEN n ELSE Len(digest))

\* A check that accepts every digest.
HashIgnored == TRUE

\* not (hash_prefix is not None and digest[:len(hash_prefix)] != hash_prefix)
HashAccepted ==
    hash_prefix = Absent \/ Prefix(hexdigest(sha256), Len(hash_prefix[1])) = hash_prefix[1]

\* u = urlopen(req); f = open(tmp_dst, 'w+b')
DlOpen ==
    /\ dl_pc = "start"
    /\ \/ /\ tmp_file' = File(<< >>) /\ f_open' = TRUE /\ dl_pc' = "read"
       \/ /\ dl_pc' = "raised" /\ UNCHANGED << tmp_file, f_open >>
    /\ UNCHANGED << options, dst_file, dst_before, body, hash_prefix, sha256, notDl >>

\* buffer = u.read(READ_DATA_CHUNK); f.write(buffer); sha256.update(buffer);
\* on an empty buffer: break, f.close()
DlRead ==
    /\ dl_pc = "read"
    /\ LET pos == Len(tmp_file[1])
       IN  \/ /\ pos < Len(body)
              /\ tmp_file' = File(Append(tmp_file[1], body[pos + 1]))
              /\ sha256' = IF hash_prefix # Absent THEN Append(sha256, body[pos + 1]) ELSE sha256
              /\ UNCHANGED << dl_pc, f_open >>
           \/ /\ pos = Len(body)
              /\ f_open' = FALSE
              /\ dl_pc' = "check"
              /\ UNCHANGED << tmp_file, sha256 >>
           \/ /\ dl_pc' = "finally_err"
              /\ UNCHANGED << tmp_file, sha256, f_open >>
    /\ UNCHANGED << options, dst_file, dst_before, body, hash_prefix, notDl >>

\* if digest[:len(hash_prefix)] != hash_prefix: raise RuntimeError
DlCheck ==
    /\ dl_pc = "check"
    /\ dl_pc' = IF HashAccepted THEN "move" ELSE "finally_err"
    /\ UNCHANGED << options, dst_file, dst_before, tmp_file, f_open, body, hash_prefix,
                    sha256, notDl >>

\* shutil.move(f.name, dst): a rename within the directory, or an OSError
DlMove ==
    /\ dl_pc = "move"
    /\ \/ /\ dst_file' = tmp_file /\ tmp_file' = Absent /\ dl_pc' = "finally_ok"
       \/ /\ dl_pc' = "finally_err" /\ UNCHANGED << dst_file, tmp_file >>
    /\ UNCHANGED << options, dst_before, f_open, body, hash_prefix, sha256, notDl >>

\* A finally clause that leaves the temporary file behind.
KeepTemp(f) == f

\* if os.path.exists(f.name): os.remove(f.name)
RemoveIfExists(f) == Absent

\* finally: f.close(); remove the temporary file; then return or re-raise
DlFinally ==
    /\ dl_pc \in { "finally_ok", "finally_err" }
    /\ f_open' = FALSE
    /\ tmp_file' = RemoveIfExists(tmp_file)
    /\ dl_pc' = IF dl_pc = "finally_ok" THEN "returned" ELSE "raised"
    /\ UNCHANGED << options, dst_file, dst_before, body, hash_prefix, sha256, notDl >>

DlNext == DlOpen \/ DlRead \/ DlCheck \/ DlMove \/ DlFinally

Bytes == { 0, 1 }

RECURSIVE SeqsUpTo(_, _)
SeqsUpTo(S, n) ==
    IF n = 0 THEN { << >> }
    ELSE LET shorter == SeqsUpTo(S, n - 1)
         IN  shorter \cup { Append(q, x) : q \in shorter, x \in S }

DlInit ==
    /\ dl_pc = "start"
    /\ dst_before \in { Absent, File(<< 1, 1, 1, 1 >>) }
    /\ dst_file = dst_before
    /\ tmp_file = Absent
    /\ f_open = FALSE
    /\ body \in SeqsUpTo(Bytes, MaxBody)
    /\ hash_prefix \in { Absent } \cup { File(q) : q \in SeqsUpTo(Bytes, 2) }
    /\ sha256 = << >>

InitDownload == options = DefaultOptions /\ DlInit /\ SepIdle /\ RunIdle /\ DxIdle /\ ShIdle /\ VlIdle /\ BxIdle

SpecDownload == InitDownload /\ [][DlNext]_vars

\* ------------------------------------------------------------------------
\* demix_vitlarge: the window loop, on one channel, at a scaled window size
\* ------------------------------------------------------------------------
\* c = model.config.audio.hop_length * (2 * model.config.inference.dim_t - 1)
vl_c == hop * (2 * dim_t - 1)

\* Python's a // b for a >= 0 and b # 0: the floor of the quotient.
FloorDiv(a, b) == IF b > 0 THEN a \div b ELSE (-a) \div (-b)

\* A loop that does not end is followed for more passes than any loop with a
\* positive step needs.
MaxPasses == vl_c + MaxExtra + 1

\* n = options["overlap_VitLarge"]; step = c // n (ZeroDivisionError for n = 0);
\* result, counter = zeros; i = 0
VlStart ==
    /\ vl_pc = "start"
    /\ IF options.overlap_VitLarge = 0
       THEN /\ vl_pc' = "raised"
            /\ UNCHANGED << vl_step, vl_result, counter, vl_i >>
       ELSE /\ vl_step' = FloorDiv(vl_c, options.overlap_VitLarge)
            /\ vl_result' = Zeros(Len(vl_mix))
            /\ counter' = Zeros(Len(vl_mix))
            /\ vl_i' = 0
            /\ vl_pc' = "loop"
    /\ UNCHANGED << vl_mix, vl_model, vl_passes, estimated_sources, notVl >>

\* One pass of `while i < mix.shape[1]`: part = mix[:, i:i + c], zero-padded to c;
\* x = model(part); result[..., i:i + length] += x[..., :length];
\* counter[..., i:i + length] += 1.; i += step.  The slices follow Python's rules
\* for negative and out-of-range indices; an in-place sum whose two sides differ
\* in length raises unless the right side has length 1.
VlWindow ==
    /\ vl_pc = "loop"
    /\ vl_i < Len(vl_mix)
    /\ vl_passes < MaxPasses
    /\ LET part == PySlice(vl_mix, vl_i, vl_i + vl_c)
           length == Len(part)
           x == [ j \in 1 .. vl_c |-> vl_model * (IF j <= length THEN part[j] ELSE 0) ]
           lo == PyIdx(vl_i, Len(vl_mix))
           hi == PyIdx(vl_i + length, Len(vl_mix))
           target == IF hi > lo THEN hi - lo ELSE 0
       IN  IF target = length \/ length = 1
           THEN /\ vl_result' = [ p \in 1 .. Len(vl_mix) |->
                                   IF lo < p /\ p <= hi
                                   THEN vl_result[p] + x[IF length = 1 THEN 1 ELSE p - lo]
                                   ELSE vl_result[p] ]
                /\ counter' = [ p \in 1 .. Len(vl_mix) |->
                                 IF lo < p /\ p <= hi THEN counter[p] + 1 ELSE counter[p] ]
                /\ vl_i' = vl_i + vl_step
                /\ vl_passes' = vl_passes + 1
                /\ UNCHANGED vl_pc
           ELSE /\ vl_pc' = "raised"
                /\ UNCHANGED << vl_result, counter, vl_i, vl_passes >>
    /\ UNCHANGED << vl_mix, vl_model, vl_step, estimated_sources, notVl >>

\* estimated_sources = result / counter
VlExit ==
    /\ vl_pc = "loop"
    /\ ~(vl_i < Len(vl_mix))
    /\ estimated_sources' = [ p \in 1 .. Len(vl_mix) |-> FloatDiv(vl_result[p], counter[p]) ]
    /\ vl_pc' = "done"
    /\ UNCHANGED << vl_mix, vl_model, vl_step, vl_i, vl_result, counter, vl_passes, notVl >>

VlNext == VlStart \/ VlWindow \/ VlExit

\* separate_music stores its overlap_VitLarge argument as it is given.
VlOptions ==
    options \in { [ DefaultOptions EXCEPT !.overlap_VitLarge = n ] : n \in (-2) .. (vl_c + 1) }

VlInit ==
    /\ vl_pc = "start"
    /\ \E n \in 1 .. (vl_c + MaxExtra) : vl_mix = [ j \in 1 .. n |-> (j % 5) - 2 ]
    /\ vl_model \in { 1, 2 }
    /\ vl_step = 0 /\ vl_i = 0 /\ vl_result = << >> /\ counter = << >>
    /\ vl_passes = 0 /\ estimated_sources = << >>

InitVitLarge == VlOptions /\ VlInit /\ SepIdle /\ RunIdle /\ DxIdle /\ ShIdle /\ DlIdle /\ BxIdle

SpecVitLarge == InitVitLarge /\ [][VlNext]_vars

\* ------------------------------------------------------------------------
\* demix_base_mdxv3: the chunk loop, on one channel, at a scaled chunk size
\* ------------------------------------------------------------------------
\* mdx_window_size = dim_t * 2; C = hop_length * (mdx_window_size - 1)
bx_C == hop * (dim_t * 2 - 1)

\* len(mix.unfold(1, C, H)): the full windows of size C at stride H
NumChunks(M, H) == ((M - bx_C) \div H) + 1

\* N = options["overlap_InstVoc"]; H = C // N; pad_size = H - (L - C) % H
\* (ZeroDivisionError for H = 0); mix = cat(zeros(C - H), mix, zeros(pad_size + C - H));
\* xx = zeros_like(mix); cnt = 0
BxStart ==
    /\ bx_pc = "start"
    /\ bx_H' = bx_C \div options.overlap_InstVoc
    /\ IF bx_H' = 0
       THEN /\ bx_pc' = "raised"
            /\ UNCHANGED << pad_size, bx_padded, xx, covered >>
       ELSE /\ pad_size' = bx_H' - ((Len(bx_mix) - bx_C) % bx_H')
            /\ bx_padded' = Zeros(bx_C - bx_H') \o bx_mix \o Zeros(pad_size' + bx_C - bx_H')
            /\ xx' = Zeros(Len(bx_padded'))
            /\ covered' = Zeros(Len(bx_padded'))
            /\ bx_pc' = "loop"
    /\ cnt' = 0
    /\ UNCHANGED << bx_mix, bx_model, bx_estimated, notBx >>

\* x = model(batch); xx[..., cnt * H: cnt * H + C] += w; cnt += 1
BxChunk ==
    /\ bx_pc = "loop"
    /\ cnt < NumChunks(Len(bx_padded), bx_H)
    /\ LET lo == cnt * bx_H
           w == [ j \in 1 .. bx_C |-> bx_model * bx_padded[lo + j] ]
       IN  /\ xx' = [ p \in 1 .. Len(bx_padded) |->
                        IF lo < p /\ p <= lo + bx_C THEN xx[p] + w[p - lo] ELSE xx[p] ]
           /\ covered' = [ p \in 1 .. Len(bx_padded) |->
                             IF lo < p /\ p <= lo + bx_C THEN covered[p] + 1 ELSE covered[p] ]
    /\ cnt' = cnt + 1
    /\ UNCHANGED << bx_pc, bx_mix, bx_model, bx_H, pad_size, bx_padded, bx_estimated, notBx >>

\* xx[..., C - H:-(pad_size + C - H)]
RetainedSlice(x) == SubSeq(x, bx_C - bx_H + 1, Len(x) - (pad_size + bx_C - bx_H))

\* estimated_sources = xx[..., C - H:-(pad_size + C - H)] / N
BxFinish ==
    /\ bx_pc = "loop"
    /\ cnt = NumChunks(Len(bx_padded), bx_H)
    /\ bx_estimated' = [ j \in 1 .. Len(RetainedSlice(xx)) |->
                           Rat(RetainedSlice(xx)[j], options.overlap_InstVoc) ]
    /\ bx_pc' = "done"
    /\ UNCHANGED << bx_mix, bx_model, bx_H, pad_size, bx_padded, xx, cnt, covered, notBx >>

BxNext == BxStart \/ BxChunk \/ BxFinish

\* separate_music stores its overlap_InstVoc argument as it is given; here the
\* values from 1 up.
BxOptions ==
    options \in { [ DefaultOptions EXCEPT !.overlap_InstVoc = n ] : n \in 1 .. (bx_C + 1) }

BxInit ==
    /\ bx_pc = "start"
    /\ \E n \in 1 .. (bx_C + MaxExtra) : bx_mix = [ j \in 1 .. n |-> (j % 5) - 2 ]
    /\ bx_model \in { 1, 2 }
    /\ bx_H = 0 /\ pad_size = 0 /\ bx_padded = << >> /\ xx = << >> /\ cnt = 0
    /\ covered = << >> /\ bx_estimated = << >>

InitBase == BxOptions /\ BxInit /\ SepIdle /\ RunIdle /\ DxIdle /\ ShIdle /\ DlIdle /\ VlIdle

SpecBase == InitBase /\ [][BxNext]_vars

\* ------------------------------------------------------------------------
\* Properties of separate_music_file
\* ------------------------------------------------------------------------
FullModeDone == sm_pc = "done" /\ ~options.vocals_only

\* The normalized ensemble `out` has just been computed.
Normalised == sm_pc = "refine"

StemTotal(sma) == RAdd(RAdd(RAdd(sma.vocals, sma.bass), sma.drums), sma.other)

\* C1: stem closure.  After the final correction pass of a full-mode run the
\* returned stems satisfy vocals + bass + drums + other = mix.
C1_StemClosure ==
    FullModeDone => StemTotal(separated_music_arrays) = mixed_sound_array

\* The unweighted output of Demucs model i on stem s, recovered from all_outs.
BackendStem(i, s) == RDiv(all_outs[i][s], RInt(StemWeight(s, i)))

BackendStems(s) == [ i \in 1 .. Len(all_outs) |-> BackendStem(i, s) ]

WithinHull(x, xs) == RLe(RSeqMin(xs), x) /\ RLe(x, RSeqMax(xs))

\* The vocal estimates the low-band blend combines.
BlendInputs ==
    IF options.use_VOCFT THEN << vocals_mdxb1, vocals3, vocals4 >>
    ELSE << vocals3, vocals4 >>

\* C7: weight normalization.  Each sample of a weighted-average combination (the
\* low-band vocal blend handed to the filter, and every stem of the normalized
\* Demucs ensemble) lies between the minimum and the maximum of the backend
\* outputs it combines.
C7_WeightedAverageWithinHull ==
    /\ sm_pc = "blend" => WithinHull(LowBlend, BlendInputs)
    /\ Normalised => \A s \in 1 .. 4 : WithinHull(out[s], BackendStems(s))

\* A normalized stem strictly inside the hull of four differing backend outputs.
C7_Witness ==
    /\ Normalised
    /\ \E s \in 1 .. 4 :
          /\ RLt(RSeqMin(BackendStems(s)), out[s])
          /\ RLt(out[s], RSeqMax(BackendStems(s)))

\* ------------------------------------------------------------------------
\* Properties of predict_with_model and the constructor
\* ------------------------------------------------------------------------
SomeInputMissing == \E i \in 1 .. NumFiles : fs[i] = "missing"

C4_AtMostOneDemucsOnDevice ==
    options.vocals_only = FALSE => Cardinality(device_models) <= 1

\* The constructor has stored the overlaps.
OverlapsStored == pc \in { "ctor_demucs", "ctor_fetch", "loop", "raised" }

StoredAs(v, stored) ==
    /\ stored = RMin(Rat(99, 100), RMax(RZero, v))
    /\ v = Rat(3, 2) => stored = Rat(99, 100)
    /\ v = Rat(-3, 10) => stored = RZero
    /\ (RLe(RZero, v) /\ RLe(v, Rat(99, 100))) => stored = v

\* C8: for any supplied overlap_demucs and overlap_VOCFT value v the model
\* stores min(0.99, max(0.0, v)): 1.5 is stored as 0.99, -0.3 as 0.0, and a
\* value already in [0, 0.99] unchanged.
C8_ClampStored ==
    OverlapsStored =>
        /\ StoredAs(options.overlap_demucs, model.overlap_demucs)
        /\ StoredAs(options.overlap_VOCFT, model.overlap_MDX)

C8_Witness ==
    /\ OverlapsStored
    /\ options.overlap_demucs = Rat(3, 2) /\ model.overlap_demucs = Rat(99, 100)
    /\ options.overlap_VOCFT = Rat(-3, 10) /\ model.overlap_MDX = RZero

\* ------------------------------------------------------------------------
\* Properties of demix
\* ------------------------------------------------------------------------
IdentitySession == << 1, 0 >>

\* C3: when the per-chunk model is the identity transform (and the input has
\* nothing in the bins demix zeroes), demix returns exactly the input waveform,
\* for every overlap fraction in [0, 0.99) and every input of at least one chunk.
C3_OverlapAddIdentity ==
    ( /\ dx_pc = "done"
      /\ dx_model = IdentitySession /\ dx_in_low = 0
      /\ RLt(dx_overlap, Rat(99, 100))
      /\ Len(dx_mix) >= chunk_size )
    => source = [ j \in 1 .. Len(dx_mix) |-> RInt(Wave(dx_mix)[j]) ]

\* ------------------------------------------------------------------------
\* Properties of the shift ensemblers
\* ------------------------------------------------------------------------
SingleShiftDone == sh_pc = "done" /\ bigshifts = 1

\* C5: with shift count 1 the output of each shift ensembler equals the output
\* of a direct call to its inner transform on the same input.
C5_SingleShiftIsInner ==
    SingleShiftDone =>
        /\ sources = Uncompensated(InnerVocals(sh_inner, sh_mix))
        /\ sh_fn = "demix_full_vitlarge" => sources2 = Uncompensated(InnerOther(sh_inner, sh_mix))

\* The scalar each ensembler is expected to apply to its vocals.
ExpectedScalar ==
    CASE sh_fn = "demix_wrapper" -> Rat(1021, 1000)
      [] sh_fn = "demix_full_mdx23c" -> Rat(625323, 625000)
      [] sh_fn = "demix_full_vitlarge" -> Rat(501, 500)

\* C5 (amended): with shift count 1 the vocals output of each shift ensembler
\* equals the output of a direct call to its inner transform on the same input
\* times the ensembler's volume-compensation scalar (1.021 for demix_wrapper,
\* 1.0005168 for demix_full_mdx23c, 1.002 for demix_full_vitlarge); the second
\* output of demix_full_vitlarge equals the inner transform's, unscaled.  No
\* rotation takes effect.
C5_SingleShiftIsScaledInner ==
    SingleShiftDone =>
        /\ sources = [ j \in 1 .. Len(sh_mix) |->
                         RMul(ExpectedScalar, RInt(InnerVocals(sh_inner, sh_mix)[j])) ]
        /\ sh_fn = "demix_full_vitlarge" => sources2 = Uncompensated(InnerOther(sh_inner, sh_mix))

C5_Witness ==
    /\ SingleShiftDone
    /\ options.BigShifts <= 0
    /\ sh_inner[2] # 0
    /\ Len(sh_mix) > 1
    /\ \E j \in 1 .. Len(sources) : sources[j] # RZero

\* C6: for every waveform of length N and every offset k with 0 <= k < N,
\* k = 0 included, the ensembler's forward rotation by k followed by its
\* inverse rotation reproduces the waveform exactly.
C6_ShiftRoundTrip ==
    sh_pc = "inner" =>
        /\ Len(shifted_mix) = Len(sh_mix)
        /\ Restore(shifted_mix, shifts[sh_idx]) = sh_mix

C6_Witness ==
    /\ sh_pc = "inner"
    /\ shifts[sh_idx] > 0 /\ shifts[sh_idx] = Len(sh_mix) - 1
    /\ shifted_mix # sh_mix

\* ------------------------------------------------------------------------
\* Properties of download_url_to_file
\* ------------------------------------------------------------------------
\* The digest of the whole body starts with the given prefix.
BodyMatches == Prefix(hexdigest(body), Len(hash_prefix[1])) = hash_prefix[1]

\* C9: received bytes go only to the temporary file, which is moved onto the
\* destination only after the whole body was read and the hash check, if any,
\* passed; before the move and after any failed download the destination holds
\* what it held before the call; once the call has returned or raised no
\* temporary file remains.
C9_TempFileAtomicity ==
    /\ dl_pc \in { "start", "read", "check", "move", "finally_err", "raised" }
          => dst_file = dst_before
    /\ dl_pc \in { "finally_ok", "returned" }
          => /\ dst_file = File(body)
             /\ hash_prefix # Absent => BodyMatches
    /\ dl_pc = "read" => tmp_file = File(SubSeq(body, 1, Len(tmp_file[1])))
    /\ dl_pc \in { "returned", "raised" } => tmp_file = Absent /\ ~f_open

C9_Witness ==
    /\ dl_pc = "raised"
    /\ dst_before # Absent /\ dst_file = dst_before
    /\ Len(sha256) > 0 /\ Len(sha256) < Len(body)

\* C10: when a hash prefix is given and the digest of the downloaded bytes does
\* not start with it, the call raises, the destination is neither created nor
\* replaced, and the downloaded bytes are discarded.
C10_HashMismatchRaises ==
    (hash_prefix # Absent /\ ~BodyMatches) =>
        /\ dl_pc \notin { "move", "finally_ok", "returned" }
        /\ dst_file = dst_before
        /\ dl_pc = "raised" => tmp_file = Absent

C10_Witness ==
    /\ dl_pc = "finally_err" /\ ~f_open
    /\ hash_prefix # Absent /\ ~BodyMatches
    /\ sha256 = body /\ Len(body) = MaxBody /\ tmp_file = File(body)
    /\ dst_file = dst_before /\ dst_before # Absent

\* ------------------------------------------------------------------------
\* Properties of the artifact downloads
\* ------------------------------------------------------------------------
DownloadFailed == \E k \in 1 .. Len(download_log) : download_log[k][2] = "failed"

\* C11: when the download of a model or config artifact fails, it is not
\* retried and the failure propagates out of separate_music: the run ends in
\* the exception, no input file is processed, no progress callback is invoked
\* and no output file is written.
C11_DownloadFailureIsFatal ==
    DownloadFailed =>
        /\ pc = "raised" /\ returned = "pending"
        /\ download_log[Len(download_log)][2] = "failed"
        /\ \A j, k \in 1 .. Len(download_log) : download_log[j][1] = download_log[k][1] => j = k
        /\ ~model.built /\ file_i = 0 /\ sep_result = { }
        /\ callback_log = << >>
        /\ written = { } /\ output_files = << >>

C11_Witness ==
    /\ DownloadFailed
    /\ Len(download_log) > 1
    /\ options.callback = "callable"
    /\ NumFiles > 0 /\ \A i \in 1 .. NumFiles : fs[i] = "audio"

\* ------------------------------------------------------------------------
\* Properties of the outputs and the progress protocol
\* ------------------------------------------------------------------------
RunReturned == pc = "returned" /\ returned = "output_files"

\* The stems written per input, in order, and the instrumental after them.
ExpectedNames ==
    (IF options.vocals_only THEN << "vocals" >> ELSE << "bass", "drums", "other", "vocals" >>)
        \o << "instrum" >>

\* C12: for a batch whose input files all exist, the run returns, in input
\* order, one path output_folder/{basename}_{stem}.wav per stem of each input
\* followed by that input's output_folder/{basename}_instrum.wav: n * (number
\* of stems + 1) paths, the stems being bass, drums, other, vocals in full mode
\* and vocals alone in vocals-only mode.
C12_OutputPaths ==
    RunReturned =>
        /\ Len(output_files) = NumFiles * Len(ExpectedNames)
        /\ \A i \in 1 .. NumFiles, k \in 1 .. Len(ExpectedNames) :
              output_files[(i - 1) * Len(ExpectedNames) + k]
                 = << "output_folder", options.input_audio[i][2], ExpectedNames[k] >>
        /\ written = Range(output_files)

C12_Witness ==
    /\ RunReturned
    /\ options.vocals_only
    /\ NumFiles > 1
    /\ options.input_audio[1][2] # options.input_audio[2][2]

\* C13: in a run over n input files every callback invocation passes
\* total_steps = 3n, the reported current_step values never decrease and stay
\* within [0, 3n], each file advances the step by exactly 3, and the last
\* invocation of a completed run reports current_step = total_steps.
C13_ProgressProtocol ==
    /\ \A k \in 1 .. Len(callback_log) :
          /\ callback_log[k][2] = 3 * NumFiles
          /\ 0 <= callback_log[k][1] /\ callback_log[k][1] <= 3 * NumFiles
          /\ k > 1 => callback_log[k - 1][1] <= callback_log[k][1]
    /\ pc = "loop" => current_step = 3 * (file_i - 1)
    /\ pc = "write" => current_step = 3 * (file_i - 1) + 2
    /\ (RunReturned /\ options.callback = "callable") =>
          /\ callback_log[Len(callback_log)] = << 3 * NumFiles, 3 * NumFiles >>
          /\ Len(callback_log) = 4 * NumFiles + 2

C13_Witness ==
    /\ RunReturned /\ options.callback = "callable"
    /\ NumFiles = MaxFiles
    /\ \E k \in 1 .. Len(callback_log) : callback_log[k][1] = 3 * NumFiles - 1

\* C14: when the callback option is not callable (None or any other
\* non-callable value) every progress milestone is skipped silently: nothing is
\* invoked, nothing is raised on its account, and the run writes and returns
\* what a run with a callable callback does.
C14_NonCallableIgnored ==
    options.callback # "callable" =>
        /\ callback_log = << >>
        /\ pc = "raised" =>
              \/ DownloadFailed
              \/ file_i \in 1 .. NumFiles /\ fs[file_i] # "audio"
        /\ (\A i \in 1 .. NumFiles : fs[i] = "audio") /\ pc \in { "returned" } =>
              /\ returned = "output_files"
              /\ current_step = 3 * NumFiles
              /\ Len(output_files) = NumFiles * Len(ExpectedNames)
              /\ \A i \in 1 .. NumFiles, k \in 1 .. Len(ExpectedNames) :
                    output_files[(i - 1) * Len(ExpectedNames) + k]
                       = << "output_folder", options.input_audio[i][2], ExpectedNames[k] >>

C14_Witness ==
    /\ RunReturned
    /\ options.callback = "not callable"
    /\ NumFiles > 0 /\ callback_log = << >> /\ written # { }

\* C15: in vocals-only mode the stem ensembling is skipped entirely: no Demucs
\* model is loaded or applied, by the constructor or by separate_music_file,
\* the separation result holds only the vocals and instrum entries, and only
\* the vocals and instrum files are written per input.
C15_VocalsOnlySkipsEnsemble ==
    options.vocals_only =>
        /\ demucs_log = { } /\ device_models = { }
        /\ pc \notin { "ctor_demucs", "demucs_load", "demucs_apply", "demucs_evict" }
        /\ pc = "write" => sep_result = { "vocals", "instrum" }
        /\ \A f \in written : f[3] \in { "vocals", "instrum" }
        /\ \A i \in 1 .. NumFiles :
              i < file_i =>
                 /\ << "output_folder", options.input_audio[i][2], "vocals" >> \in written
                 /\ << "output_folder", options.input_audio[i][2], "instrum" >> \in written

C15_Witness ==
    /\ RunReturned /\ options.vocals_only
    /\ NumFiles = MaxFiles /\ Cardinality(written) = 2 * NumFiles

\* C16: an artifact is downloaded only if its file is absent from the model
\* directory: one already present is never downloaded again or overwritten
\* (nothing leaves the directory), and the ONNX artifact is downloaded only
\* when the ONNX backend is enabled.
C16_DownloadOnlyIfAbsent ==
    [][ /\ model_folder \subseteq model_folder'
        /\ download_log' # download_log =>
              LET a == download_log'[Len(download_log')][1]
              IN  /\ a \notin model_folder
                  /\ \A k \in 1 .. Len(download_log) : download_log[k][1] # a
                  /\ a = "UVR-MDX-NET-Voc_FT.onnx" => options.use_VOCFT = TRUE ]_vars

C16_Witness ==
    /\ model.built
    /\ download_log # << >> /\ Len(download_log) < Len(Artifacts)
    /\ ~options.use_VOCFT /\ "UVR-MDX-NET-Voc_FT.onnx" \notin model_folder

\* ------------------------------------------------------------------------
\* Properties of demix's accumulators
\* ------------------------------------------------------------------------
\* The padded positions demix returns: trim .. trim + input length - 1
\* (counted from 0), here counted from 1.
Retained == (trim + 1) .. (trim + Len(dx_mix))

\* The padded positions some chunk of the loop covers.
CoveredPositions ==
    { p \in 1 .. Len(mixture) :
        \E k \in 0 .. Len(mixture) :
            /\ k * step < Len(mixture)
            /\ k * step < p
            /\ p <= k * step + chunk_size }

\* C17: for every overlap in the clamped range [0, 0.99] and every input
\* length, after the chunk loop the divider is non-zero at every sample of the
\* retained region, so result / divider is defined there.
C17_DividerNonZeroRetained ==
    dx_pc = "divide" => \A p \in Retained : divider[p] # 0

\* C18: after the chunk loop the divider is non-zero at every sample of the
\* padded waveform that at least one chunk covers, the stride being at most the
\* chunk size, with the Hann window as well as with no window.
C18_DividerNonZeroCovered ==
    (dx_pc = "divide" /\ step <= chunk_size) => \A p \in CoveredPositions : divider[p] # 0

\* ------------------------------------------------------------------------
\* Properties of the refinement and the correction pass
\* ------------------------------------------------------------------------
\* The stems as the refinement leaves them.
Refined == [ other |-> RefineOther(out), drums |-> RefineDrums(out), bass |-> RefineBass(out) ]

\* C19: the correction pass recomputes other, then drums, then bass, each from
\* the just-updated values of the stems recomputed before it: drums from the
\* new other, bass from the new drums and the new other.
C19_CorrectionIsSequential ==
    (sm_pc = "return" /\ ~options.vocals_only) =>
        LET new_other == MixMinus(Refined.bass, Refined.drums)
            new_drums == MixMinus(Refined.bass, new_other)
            new_bass == MixMinus(new_drums, new_other)
        IN  /\ separated_music_arrays.other = new_other
            /\ separated_music_arrays.drums = new_drums
            /\ separated_music_arrays.bass = new_bass

\* C20: each of the stems other, drums and bass is refined to
\* (residual + 2 * raw_stem) / 3, the residual being
\* clip(mix - vocals - the two other raw stems, -1, 1) and raw_stem the stem's
\* normalized ensemble output.
C20_RefinementWeights ==
    (sm_pc = "correct" /\ ~options.vocals_only) =>
        /\ separated_music_arrays.other
              = RThird(RAdd(Residual(out[StDrums], out[StBass]), RScale(2, out[StOther])))
        /\ separated_music_arrays.drums
              = RThird(RAdd(Residual(out[StBass], out[StOther]), RScale(2, out[StDrums])))
        /\ separated_music_arrays.bass
              = RThird(RAdd(Residual(out[StDrums], out[StOther]), RScale(2, out[StBass])))

\* ---------------------------------------------------------------------------
\* The Demucs models that are run as phase-cancellation pairs
\* ---------------------------------------------------------------------------

AllDemucsRun == Len(apply_calls) = 4 /\ Len(all_outs) = 4

PairsRun == { k \in 1 .. Len(apply_calls) : apply_calls[k] = 2 }
SinglesRun == { k \in 1 .. Len(apply_calls) : apply_calls[k] = 1 }

\* C21: of the four Demucs models, three (htdemucs_ft, htdemucs, hdemucs_mmi) are
\* run as phase-cancellation pairs and one (htdemucs_6s) is run single-pass.
C21_ThreePairsOneSingle ==
    AllDemucsRun => PairsRun = { 1, 2, 4 } /\ SinglesRun = { 3 }

\* C21 as stated: exactly two are run as pairs and exactly two single-pass.
C21_TwoPairsTwoSingle ==
    AllDemucsRun => Cardinality(PairsRun) = 2 /\ Cardinality(SinglesRun) = 2

C21_Witness == AllDemucsRun /\ sm_pc = "normalize"

\* ---------------------------------------------------------------------------
\* The shift count and the offsets of a circular-shift ensembler
\* ---------------------------------------------------------------------------

ShiftsChosen == sh_pc # "idle" /\ sh_pc # "start"

\* C22: an ensembler uses max(1, configured count) shifts; shift i (from 0) has
\* offset i * floor(N / count); every offset lies in [0, N); consecutive offsets
\* are floor(N / count) apart and the span from the last offset to N has length
\* floor(N / count) + N mod count.
C22_ShiftOffsets ==
    ShiftsChosen =>
        LET N == Len(sh_mix)
            count == IF BigShiftsArg < 1 THEN 1 ELSE BigShiftsArg
            span == N \div count
        IN  /\ bigshifts = count
            /\ Len(shifts) = count
            /\ \A i \in 0 .. count - 1 :
                  /\ shifts[i + 1] = i * span
                  /\ 0 <= shifts[i + 1] /\ shifts[i + 1] < N
            /\ \A i \in 1 .. count - 1 : shifts[i + 1] - shifts[i] = span
            /\ N - shifts[count] = span + (N % count)

C22_Witness ==
    /\ sh_pc = "rotate"
    /\ bigshifts >= 2 /\ Len(sh_mix) > bigshifts /\ Len(sh_mix) % bigshifts # 0
    /\ Len(shifts) = bigshifts

\* ---------------------------------------------------------------------------
\* The length and the alignment of what demix returns
\* ---------------------------------------------------------------------------

\* C23: demix returns exactly as many samples as it was given; output sample j
\* is the quotient at padded position trim + j, the position input sample j was
\* put at, and without a window (overlap 0) it is the session's output for
\* input sample j.
C23_LengthAndAlignment ==
    dx_pc = "done" =>
        /\ Len(source) = Len(dx_mix)
        /\ \A j \in 1 .. Len(dx_mix) :
              /\ mixture[trim + j] = dx_mix[j]
              /\ source[j] = FloatDiv(result[trim + j], divider[trim + j])
              /\ dx_overlap = RZero =>
                    source[j] = RInt(dx_model[1] * dx_mix[j][2] + dx_model[2])

C23_Witness ==
    /\ dx_pc = "done"
    /\ Len(dx_mix) > chunk_size /\ Len(dx_mix) % gen_size # 0
    /\ dx_overlap # RZero /\ total > 2
    /\ Len(source) = Len(dx_mix)

\* ---------------------------------------------------------------------------
\* The instrumental
\* ---------------------------------------------------------------------------

\* The vocals as the multiband ensemble computes them from the backends' outputs.
BlendedVocals ==
    RAdd(RMul(lr_filter(LowBlend, "lowpass"), LowGain), lr_filter(vocals3, "highpass"))

AfterBlend == sm_pc \notin { "idle", "vitlarge", "mdx23c", "vocft", "blend" }

\* C24: in full and in vocals-only mode the returned instrum entry is
\* mix - vocals, so that vocals + instrum is the mix, and from the blend to the
\* return (through normalisation, refinement and correction) vocals stays the
\* blended estimate and instrum stays mix - vocals.
C24_InstrumIsResidual ==
    /\ AfterBlend =>
          /\ vocals = BlendedVocals
          /\ instrum = RSub(mixed_sound_array, vocals)
    /\ sm_pc = "done" =>
          /\ separated_music_arrays["vocals"] = BlendedVocals
          /\ separated_music_arrays["instrum"] =
                RSub(mixed_sound_array, separated_music_arrays["vocals"])
          /\ RAdd(separated_music_arrays["vocals"], separated_music_arrays["instrum"])
                = mixed_sound_array

C24_Witness ==
    /\ sm_pc = "done" /\ ~options.vocals_only
    /\ separated_music_arrays["vocals"] # RZero
    /\ separated_music_arrays["instrum"] # RZero
    /\ RAdd(RAdd(separated_music_arrays["other"], separated_music_arrays["drums"]),
            separated_music_arrays["bass"]) # separated_music_arrays["instrum"]

\* ---------------------------------------------------------------------------
\* The ONNX backend and the two blends
\* ---------------------------------------------------------------------------

OnnxFile == AllArtifacts[5]

\* C25: the ONNX backend is loaded (its file looked for, its session created) and
\* run if and only if options['use_VOCFT'] is enabled; with the toggle off the
\* one blend computed uses the weights (InstVoc, VitLarge), with it on the one
\* blend computed uses (VOCFT, InstVoc, VitLarge).
C25_OnnxToggle ==
    /\ model.built => (model.infer_session1 <=> options.use_VOCFT)
    /\ \A k \in 1 .. Len(download_log) :
          download_log[k][1] = OnnxFile => options.use_VOCFT
    /\ \A k \in 1 .. Len(vocals_log) :
          /\ ("demix_wrapper" \in Range(vocals_log[k].run)) <=> options.use_VOCFT
          /\ model.infer_session1 <=> ("demix_wrapper" \in Range(vocals_log[k].run))
          /\ Len(vocals_log[k].blends) = 1
          /\ vocals_log[k].blends[1] =
                IF options.use_VOCFT
                THEN << "weight_VOCFT", "weight_InstVoc", "weight_VitLarge" >>
                ELSE << "weight_InstVoc", "weight_VitLarge" >>

C25_Witness ==
    /\ options.use_VOCFT /\ model.infer_session1
    /\ \E k \in 1 .. Len(download_log) : download_log[k] = << OnnxFile, "ok" >>
    /\ Len(vocals_log) = 2
    /\ Len(vocals_log[2].run) = 3

\* ---------------------------------------------------------------------------
\* Where the lowest bins are zeroed in demix's chunk step
\* ---------------------------------------------------------------------------

AllZero(x) == \A j \in 1 .. Len(x) : x[j] = 0

\* C26: in each chunk step the lowest bins are zeroed on the chunk's STFT before
\* model inference, so the spectrum handed to the ONNX session always has those
\* bins equal to zero; the session's output goes to the inverse transform as it
\* is.
C26_LowBinsZeroBeforeInference ==
    total >= 1 =>
        /\ Len(stft_res.low) = chunk_size
        /\ AllZero(stft_res.low)
        /\ ten = ort_run(dx_model, stft_res)

\* C26 as stated: the bins are zeroed after inference, so the spectrum handed to
\* the inverse transform always has them equal to zero.
C26_LowBinsZeroBeforeInverse ==
    total >= 1 => AllZero(ten.low)

C26_Witness ==
    /\ total >= 2 /\ dx_in_low = 1
    /\ AllZero(stft_res.low) /\ ~AllZero(stft_res.rest)

\* ---------------------------------------------------------------------------
\* The stride of demix's chunk loop
\* ---------------------------------------------------------------------------

\* Overlap fractions of the clamped range, in hundredths.
ClampedOverlaps == { Rat(k, 100) : k \in 0 .. 99 }

\* The loop indices of `for i in range(0, mixture.shape[-1], step)`.
LoopIndices == { k * step : k \in { k \in 0 .. Len(mixture) : k * step < Len(mixture) } }

\* C27: for every overlap of the clamped range the stride at the program's chunk
\* size is at least 1 and at most the chunk size; with such a stride the loop
\* ends after at most one pass per padded sample, every padded sample is covered
\* by a chunk, and every chunk handed to the session has chunk_size samples.
C27_StrideBounds ==
    /\ \A ov \in ClampedOverlaps :
          /\ 1 <= StepOfSize(ov, mdx_chunk_size)
          /\ StepOfSize(ov, mdx_chunk_size) <= mdx_chunk_size
    /\ dx_pc \in { "loop", "divide", "done" } =>
          /\ 1 <= step /\ step <= chunk_size
          /\ dx_i = total * step /\ total <= Len(mixture)
          /\ dx_pc = "loop" => dx_i \in LoopIndices
          /\ total >= 1 =>
                Len(stft_res.low) = chunk_size /\ Len(stft_res.rest) = chunk_size
    /\ dx_pc \in { "divide", "done" } =>
          /\ total = Cardinality(LoopIndices)
          /\ dx_i >= Len(mixture)
          /\ \A p \in 1 .. Len(mixture) :
                \E i \in LoopIndices : i < p /\ p <= i + chunk_size

C27_Witness ==
    /\ dx_pc = "divide"
    /\ step = 1 /\ total = Len(mixture) /\ Len(dx_mix) > chunk_size
    /\ Len(stft_res.low) = chunk_size

\* ---------------------------------------------------------------------------
\* The window loop of demix_vitlarge
\* ---------------------------------------------------------------------------

\* C28: for every overlap_VitLarge that separate_music accepts, the step c // n
\* is at least 1, the window loop of demix_vitlarge ends (within one pass per
\* input sample), and on exit the counter is at least 1 at every sample.
C28_VitLargeLoopTerminates ==
    /\ vl_pc \in { "loop", "done", "raised" } =>
          /\ vl_pc # "raised"
          /\ vl_step >= 1
          /\ vl_passes <= Len(vl_mix)
    /\ vl_pc = "done" => \A p \in 1 .. Len(vl_mix) : counter[p] >= 1

\* ---------------------------------------------------------------------------
\* The chunk coverage of demix_base_mdxv3
\* ---------------------------------------------------------------------------

\* C29: for every overlap_InstVoc N >= 1 and every input length, when the chunk
\* loop of demix_base_mdxv3 is over each sample of the retained region has been
\* covered by exactly N chunks, so that the returned sum / N is the mean of the
\* chunk outputs at that sample (the model's output for it).
C29_ExactlyNChunks ==
    /\ bx_pc # "raised"
    /\ bx_pc = "done" =>
          /\ Len(bx_estimated) = Len(bx_mix)
          /\ \A j \in 1 .. Len(bx_mix) :
                /\ RetainedSlice(covered)[j] = options.overlap_InstVoc
                /\ bx_estimated[j] = RInt(bx_model * bx_mix[j])

\* ---------------------------------------------------------------------------
\* Input validation
\* ---------------------------------------------------------------------------

NoWorkDone ==
    /\ ~model.built /\ ~model.infer_session1 /\ device_models = { }
    /\ download_log = << >> /\ demucs_log = { } /\ vocals_log = << >>
    /\ callback_log = << >>
    /\ folder_made = FALSE
    /\ written = { } /\ output_files = << >>

\* C30: validation comes before all work and is all-or-nothing: while the paths
\* are being checked nothing has been done, and if any input path is not an
\* existing file the call returns None with no model loaded, no callback made,
\* no output folder created and no file written, whatever the other paths are;
\* a call that returns with every path an existing file returns the list of
\* output paths, each of them written.
C30_ValidationAllOrNothing ==
    /\ pc = "validate" => NoWorkDone
    /\ SomeInputMissing => (pc \in { "validate", "returned" } /\ NoWorkDone)
    /\ pc = "returned" =>
          /\ SomeInputMissing <=> returned = None
          /\ ~SomeInputMissing =>
                /\ returned = "output_files"
                /\ folder_made
                /\ Len(output_files) = NumFiles * Len(ExpectedNames)
                /\ Range(output_files) = written

C30_Witness ==
    /\ pc = "returned" /\ returned = None
    /\ NumFiles = 2 /\ fs[1] = "audio" /\ fs[2] = "missing"
    /\ NoWorkDone

====
